---- MODULE Spec2Model ----
(***************************************************************************)
(* Model of host/lib/bundle_firmware.py (class Bundle): the GBB flag       *)
(* decoder, the TEXT_BASE resolver, the Exynos BL2 parameter patcher and   *)
(* the boot stub signing pipeline, the mangling of the EC image,           *)
(* SetNodeEnabled, and Start; and of SafeSandboxAccess, AcquireLock and    *)
(* ReleaseLock of common_util.py.                                          *)
(*                                                                         *)
(* Python strings are sequences of one-character strings; binary data is a *)
(* sequence of bytes 0..255.  Each component has its own specification     *)
(* (SpecGbb, SpecTextBase, SpecBl2, SpecBootStub, SpecStart, SpecSandbox,  *)
(* SpecLock, SpecEcro, SpecNode); the variables of the other components   *)
(* stay at their idle values.                                              *)
(***************************************************************************)
EXTENDS Integers, Sequences, FiniteSets, TLC

VARIABLES
    \* ---- GBB flag decoding
    caller,           \* who calls DecodeGBBFlagsFromOptions
    chromeos_config,  \* fdt.GetProps("/chromeos-config"): list of names
    adjustments,      \* self._gbb_flags, the adjustment string
    gbb_base,         \* argument gbb_flags of DecodeGBBFlagsFromOptions
    gbb_flags,        \* the local gbb_flags (working value)
    use_base_value,   \* the local use_base_value
    flag_list,        \* tokens of adjustments.split(',') not yet visited
    gbb_pc,           \* position in the decoder
    gbb_ret           \* what the decoder returned or raised

gbb_vars == <<caller, chromeos_config, adjustments, gbb_base, gbb_flags,
              use_base_value, flag_list, gbb_pc, gbb_ret>>
VARIABLES
    \* ---- CalcTextBase / DecodeTextBase
    uboot_data,       \* self._tools.ReadFile(fname): the U-Boot binary
    fdt_textbase,     \* /chromeos-config textbase as fdt.GetInt reads it
    fdt_text_base,    \* the local fdt_text_base of CalcTextBase
    text_base,        \* the local text_base of CalcTextBase
    scan,             \* DecodeTextBase's locals: window, offset i, found
    tb_pc,            \* position in CalcTextBase
    tb_ret            \* what CalcTextBase returned or raised

tb_vars == <<uboot_data, fdt_textbase, fdt_text_base, text_base, scan, tb_pc,
             tb_ret>>

VARIABLES
    \* ---- ConfigureExynosBl2
    exynos_bl2,       \* self.exynos_bl2: the name of the file orig_bl2
    orig_bl2,         \* contents of the file orig_bl2
    bl2_file,         \* contents of outdir/updated-spl.bin, once written
    bl2_fdt,          \* what the device tree answers for the /dmc lookups
    spl_load_size,    \* argument spl_load_size
    spl_source,       \* self.spl_source
    bl2_pos,          \* the local pos of ConfigureExynosBl2
    bl2_pc,           \* position in ConfigureExynosBl2
    bl2_ret           \* what ConfigureExynosBl2 returned or raised

bl2_vars == <<exynos_bl2, orig_bl2, bl2_file, bl2_fdt, spl_load_size, spl_source, bl2_pos,
              bl2_pc, bl2_ret>>

VARIABLES
    \* ---- _CreateBootStub
    base_fdt,         \* argument base_fdt: the device tree
    postload,         \* argument postload: the post-load binary, if any
    bs_text_base,     \* the local text_base
    bs_files,         \* the files of outdir
    bs_data,          \* the local data
    bootstub,         \* the local bootstub, a file name
    cbootimage,       \* the runs of cbootimage so far
    bs_pc,            \* position in _CreateBootStub
    bs_ret            \* what _CreateBootStub returned or raised

bs_vars == <<base_fdt, postload, bs_text_base, bs_files, bs_data, bootstub,
             cbootimage, bs_pc, bs_ret>>

VARIABLES
    \* ---- Start, _CreateGoogleBinaryBlock, _CreateImage, _BuildBlob
    small,            \* self._small
    hardware_id,      \* argument hardware_id of Start, "" for None
    fdt_hwid,         \* /config hwid of the device tree, "" when it has none
    output_fname,     \* argument output_fname of Start, "" for None
    flashmap,         \* the entries pack.SelectFdt read from the flash map
    gbb,              \* the local gbb of Start
    pack_props,       \* pack.props
    require_all,      \* whether pack.RequireAllEntries() was called
    blob_list,        \* the blob types _CreateImage has yet to build
    st_files,         \* the files Start and _CreateImage wrote
    stages,           \* the calls made so far, in order
    st_pc,            \* position in Start
    st_ret            \* what Start returned or raised

st_vars == <<small, hardware_id, fdt_hwid, output_fname, flashmap, gbb, pack_props,
             require_all, blob_list, st_files, stages, st_pc, st_ret>>

VARIABLES
    \* ---- common_util.SafeSandboxAccess
    sb_static_dir,    \* argument static_dir
    sb_path,          \* argument path
    sb_pc,            \* position in SafeSandboxAccess
    sb_ret            \* what SafeSandboxAccess returned

sb_vars == <<sb_static_dir, sb_path, sb_pc, sb_ret>>

VARIABLES
    \* ---- common_util.AcquireLock and ReleaseLock, one call per process
    lk_tag,           \* argument tag, the same for every process
    lk_dir,           \* whether the directory build_dir exists
    lk_file,          \* the process whose lock file is in build_dir, 0: none
    lk_args,          \* per process: create_once and destroy
    is_created,       \* per process: the local is_created of AcquireLock
    lk_fault,         \* whether lock.acquire failed for a reason of its own
    lk_pc,            \* per process: position in AcquireLock / ReleaseLock
    lk_ret            \* per process: what AcquireLock returned or raised

lk_vars == <<lk_tag, lk_dir, lk_file, lk_args, is_created, lk_fault, lk_pc,
             lk_ret>>

cu_vars == <<sb_vars, lk_vars>>

VARIABLES
    \* ---- _BuildBlob for the blob type ecro
    ecro_data,        \* contents of the file self.ecro_fname
    updated_ecro,     \* the file updated-ecro.bin in outdir
    ec_pc             \* "idle", "call", "returned"
ec_vars == <<ecro_data, updated_ecro, ec_pc>>

VARIABLES
    \* ---- SetNodeEnabled
    ne_fdt,           \* self.fdt: the properties of the device tree
    node_name,        \* argument node_name
    enabled,          \* argument enabled
    fdt_puts,         \* the calls of fdt.PutString, in order
    warnings,         \* how many times self._out.Warning was called
    ne_pc             \* "idle", "call", "returned"
ne_vars == <<ne_fdt, node_name, enabled, fdt_puts, warnings, ne_pc>>

\* the components that are run on their own
own_vars == <<cu_vars, ec_vars, ne_vars>>

\* what the actions of one component leave alone
not_gbb == <<tb_vars, bl2_vars, bs_vars, st_vars, own_vars>>
not_tb  == <<gbb_vars, bl2_vars, bs_vars, st_vars, own_vars>>
not_bl2 == <<gbb_vars, tb_vars, bs_vars, st_vars, own_vars>>
not_bs  == <<gbb_vars, bl2_vars, tb_vars, st_vars, own_vars>>
not_sb  == <<gbb_vars, tb_vars, bl2_vars, bs_vars, st_vars, lk_vars, ec_vars,
             ne_vars>>
not_lk  == <<gbb_vars, tb_vars, bl2_vars, bs_vars, st_vars, sb_vars, ec_vars,
             ne_vars>>
not_ec  == <<gbb_vars, tb_vars, bl2_vars, bs_vars, st_vars, cu_vars, ne_vars>>
not_ne  == <<gbb_vars, tb_vars, bl2_vars, bs_vars, st_vars, cu_vars, ec_vars>>

-----------------------------------------------------------------------------
(* Python values *)

Returned(v) == [kind |-> "return", value |-> v]
Raised(e)   == [kind |-> "raise", value |-> e]
NoResult    == [kind |-> "none", value |-> "none"]

RECURSIVE BitOr(_, _)
\* a | b on non-negative integers of any width
BitOr(a, b) ==
    IF a = 0 THEN b
    ELSE IF b = 0 THEN a
    ELSE (IF a % 2 = 1 \/ b % 2 = 1 THEN 1 ELSE 0) + 2 * BitOr(a \div 2, b \div 2)

RECURSIVE BitAndNot(_, _)
\* a & ~b on non-negative integers of any width
BitAndNot(a, b) ==
    IF a = 0 THEN 0
    ELSE (IF a % 2 = 1 /\ b % 2 = 0 THEN 1 ELSE 0)
         + 2 * BitAndNot(a \div 2, b \div 2)

-----------------------------------------------------------------------------
(* Strings *)

HexLower == <<"0", "1", "2", "3", "4", "5", "6", "7", "8", "9",
              "a", "b", "c", "d", "e", "f">>
HexUpper == <<"0", "1", "2", "3", "4", "5", "6", "7", "8", "9",
              "A", "B", "C", "D", "E", "F">>

IsHexDigit(c) == \E i \in 1..16 : HexLower[i] = c \/ HexUpper[i] = c
HexDigitValue(c) == (CHOOSE i \in 1..16 : HexLower[i] = c \/ HexUpper[i] = c) - 1

RECURSIVE StripLeft(_)
StripLeft(s) == IF s # <<>> /\ Head(s) = " " THEN StripLeft(Tail(s)) ELSE s

RECURSIVE StripRight(_)
StripRight(s) ==
    IF s # <<>> /\ s[Len(s)] = " " THEN StripRight(SubSeq(s, 1, Len(s) - 1)) ELSE s

RECURSIVE HexDigitsValue(_, _)
\* value of the digit string s, acc being the value of the digits read so far
HexDigitsValue(s, acc) ==
    IF s = <<>> THEN acc
    ELSE HexDigitsValue(Tail(s), 16 * acc + HexDigitValue(Head(s)))

\* int(s, base=16): surrounding blanks, an optional sign, an optional 0x
\* prefix, then one or more hexadecimal digits; anything else raises.
IntBase16(s) ==
    LET t      == StripRight(StripLeft(s))
        signed == t # <<>> /\ Head(t) \in {"+", "-"}
        u      == IF signed THEN Tail(t) ELSE t
        prefix == Len(u) >= 2 /\ u[1] = "0" /\ u[2] \in {"x", "X"}
        v      == IF prefix THEN SubSeq(u, 3, Len(u)) ELSE u
        ok     == v # <<>> /\ \A i \in 1..Len(v) : IsHexDigit(v[i])
    IN  IF ~ok THEN Raised("ValueError")
        ELSE IF signed /\ Head(t) = "-" THEN Returned(0 - HexDigitsValue(v, 0))
        ELSE Returned(HexDigitsValue(v, 0))

RECURSIVE SplitFrom(_, _, _)
\* s.split(sep): cur is the token being collected
SplitFrom(s, sep, cur) ==
    IF s = <<>> THEN <<cur>>
    ELSE IF Head(s) = sep THEN <<cur>> \o SplitFrom(Tail(s), sep, <<>>)
    ELSE SplitFrom(Tail(s), sep, Append(cur, Head(s)))

Split(s, sep) == SplitFrom(s, sep, <<>>)

RECURSIVE Join(_, _)
\* sep.join(tokens)
Join(tokens, sep) ==
    IF tokens = <<>> THEN <<>>
    ELSE IF Len(tokens) = 1 THEN tokens[1]
    ELSE tokens[1] \o <<sep>> \o Join(Tail(tokens), sep)

StartsWith(s, p) == Len(s) >= Len(p) /\ SubSeq(s, 1, Len(p)) = p

-----------------------------------------------------------------------------
(* The GBB flag table *)

gbb_flag_properties == {
    <<<<"d", "e", "v", "-", "s", "c", "r", "e", "e", "n", "-", "s", "h", "o",
        "r", "t", "-", "d", "e", "l", "a", "y">>, 1>>,
    <<<<"l", "o", "a", "d", "-", "o", "p", "t", "i", "o", "n", "-", "r", "o",
        "m", "s">>, 2>>,
    <<<<"e", "n", "a", "b", "l", "e", "-", "a", "l", "t", "e", "r", "n", "a",
        "t", "e", "-", "o", "s">>, 4>>,
    <<<<"f", "o", "r", "c", "e", "-", "d", "e", "v", "-", "s", "w", "i", "t",
        "c", "h", "-", "o", "n">>, 8>>,
    <<<<"f", "o", "r", "c", "e", "-", "d", "e", "v", "-", "b", "o", "o", "t",
        "-", "u", "s", "b">>, 16>>,
    <<<<"d", "i", "s", "a", "b", "l", "e", "-", "f", "w", "-", "r", "o", "l",
        "l", "b", "a", "c", "k", "-", "c", "h", "e", "c", "k">>, 32>>,
    <<<<"e", "n", "t", "e", "r", "-", "t", "r", "i", "g", "g", "e", "r", "s",
        "-", "t", "o", "n", "o", "r", "m">>, 64>>,
    <<<<"f", "o", "r", "c", "e", "-", "d", "e", "v", "-", "b", "o", "o", "t",
        "-", "l", "e", "g", "a", "c", "y">>, 128>>
}

\* gbb_flag_properties.get(name): the flag's value, None when it has none
HasFlag(name) == \E p \in gbb_flag_properties : p[1] = name
FlagValue(name) == (CHOOSE p \in gbb_flag_properties : p[1] = name)[2]
\* "if not value" / "if flag_value": None and 0 are both false
FlagTruthy(name) == HasFlag(name) /\ FlagValue(name) # 0

RECURSIVE OrOfValues(_)
OrOfValues(table) ==
    IF table = {} THEN 0
    ELSE LET p == CHOOSE q \in table : TRUE
         IN  BitOr(p[2], OrOfValues(table \ {p}))

\* the OR of every bit of the table
FlagTableMask == OrOfValues(gbb_flag_properties)

Name(n) == (CHOOSE p \in gbb_flag_properties : p[2] = n)[1]

gbb_flag_prefix == <<"g", "b", "b", "-", "f", "l", "a", "g", "-">>

-----------------------------------------------------------------------------
(* DecodeGBBFlagsFromFdt *)

RECURSIVE FdtFlagsLoop_SkipUnknown(_, _)
\* the loop passing over a gbb-flag- name that is not in the table
FdtFlagsLoop_SkipUnknown(props, flags) ==
    IF props = <<>> THEN Returned(flags)
    ELSE LET name   == Head(props)
             suffix == SubSeq(name, 10, Len(name))
         IN  IF StartsWith(name, gbb_flag_prefix) /\ FlagTruthy(suffix)
             THEN FdtFlagsLoop_SkipUnknown(Tail(props),
                                           BitOr(flags, FlagValue(suffix)))
             ELSE FdtFlagsLoop_SkipUnknown(Tail(props), flags)

RECURSIVE FdtFlagsLoop(_, _)
\* the loop over the property names, flags being the local gbb_flags
FdtFlagsLoop(props, flags) ==
    IF props = <<>> THEN Returned(flags)
    ELSE LET name   == Head(props)
             suffix == SubSeq(name, 10, Len(name))
         IN  IF StartsWith(name, gbb_flag_prefix)
             THEN IF FlagTruthy(suffix)
                  THEN FdtFlagsLoop(Tail(props), BitOr(flags, FlagValue(suffix)))
                  ELSE Raised("ValueError")
             ELSE FdtFlagsLoop(Tail(props), flags)

DecodeGBBFlagsFromFdt(props) == FdtFlagsLoop(props, 0)

-----------------------------------------------------------------------------
(* DecodeGBBFlagsFromOptions *)

\* OptionsToken with a signed token handled like a bare one (it resets the
\* working value the first time)
OptionsToken_SignResets(flags, use_base, token) ==
    IF token = <<>> THEN [raised |-> "IndexError", flags |-> flags, use_base |-> use_base]
    ELSE LET oper  == IF Head(token) \in {"-", "+"} THEN Head(token) ELSE "None"
             flag  == IF oper = "None" THEN token ELSE Tail(token)
             from  == IF use_base THEN 0 ELSE flags
         IN  IF ~FlagTruthy(flag)
             THEN [raised |-> "ValueError", flags |-> flags, use_base |-> use_base]
             ELSE IF oper = "-"
             THEN [raised |-> "no", flags |-> BitAndNot(from, FlagValue(flag)),
                   use_base |-> FALSE]
             ELSE [raised |-> "no", flags |-> BitOr(from, FlagValue(flag)),
                   use_base |-> FALSE]

\* OptionsToken that skips a token naming no flag instead of raising
OptionsToken_SkipUnknown(flags, use_base, token) ==
    IF token = <<>> THEN [raised |-> "no", flags |-> flags, use_base |-> use_base]
    ELSE LET oper  == IF Head(token) \in {"-", "+"} THEN Head(token) ELSE "None"
             flag  == IF oper = "None" THEN token ELSE Tail(token)
         IN  IF ~FlagTruthy(flag)
             THEN [raised |-> "no", flags |-> flags, use_base |-> use_base]
             ELSE IF oper = "+"
             THEN [raised |-> "no", flags |-> BitOr(flags, FlagValue(flag)),
                   use_base |-> use_base]
             ELSE IF oper = "-"
             THEN [raised |-> "no", flags |-> BitAndNot(flags, FlagValue(flag)),
                   use_base |-> use_base]
             ELSE [raised |-> "no",
                   flags |-> BitOr(IF use_base THEN 0 ELSE flags, FlagValue(flag)),
                   use_base |-> FALSE]

\* OptionsToken where every bare name resets the working value
OptionsToken_ResetEveryBare(flags, use_base, token) ==
    IF token = <<>> THEN [raised |-> "IndexError", flags |-> flags, use_base |-> use_base]
    ELSE LET oper  == IF Head(token) \in {"-", "+"} THEN Head(token) ELSE "None"
             flag  == IF oper = "None" THEN token ELSE Tail(token)
         IN  IF ~FlagTruthy(flag)
             THEN [raised |-> "ValueError", flags |-> flags, use_base |-> use_base]
             ELSE IF oper = "+"
             THEN [raised |-> "no", flags |-> BitOr(flags, FlagValue(flag)),
                   use_base |-> use_base]
             ELSE IF oper = "-"
             THEN [raised |-> "no", flags |-> BitAndNot(flags, FlagValue(flag)),
                   use_base |-> use_base]
             ELSE [raised |-> "no", flags |-> FlagValue(flag), use_base |-> FALSE]

\* One pass of "for flag in adjustments.split(',')": the new locals, or the
\* exception the pass raises.
OptionsToken(flags, use_base, token) ==
    IF token = <<>> THEN [raised |-> "IndexError", flags |-> flags, use_base |-> use_base]
    ELSE LET oper  == IF Head(token) \in {"-", "+"} THEN Head(token) ELSE "None"
             flag  == IF oper = "None" THEN token ELSE Tail(token)
         IN  IF ~FlagTruthy(flag)
             THEN [raised |-> "ValueError", flags |-> flags, use_base |-> use_base]
             ELSE IF oper = "+"
             THEN [raised |-> "no", flags |-> BitOr(flags, FlagValue(flag)),
                   use_base |-> use_base]
             ELSE IF oper = "-"
             THEN [raised |-> "no", flags |-> BitAndNot(flags, FlagValue(flag)),
                   use_base |-> use_base]
             ELSE [raised |-> "no",
                   flags |-> BitOr(IF use_base THEN 0 ELSE flags, FlagValue(flag)),
                   use_base |-> FALSE]

\* int(adjustments) with the default base 10
OptionsHex_Base10(adj) ==
    IF adj # <<>> /\ \A i \in 1..Len(adj) : adj[i] \in {"0", "1", "2", "3", "4", "5", "6", "7", "8", "9"}
    THEN IntBase16(adj)
    ELSE Raised("ValueError")

\* "return int(adjustments, base=16)" inside try/except
OptionsHex(adj) == IntBase16(adj)

-----------------------------------------------------------------------------
(* Inputs of the GBB flag decoder *)

MaxTokens == 3

load_option_roms       == Name(2)
enable_alternate_os    == Name(4)
force_dev_boot_usb     == Name(16)
not_a_flag             == <<"n", "o", "t", "-", "a", "-", "f", "l", "a", "g">>

\* the tokens the adjustment strings are made of
AdjustmentTokens ==
    { <<"+">> \o load_option_roms, <<"-">> \o load_option_roms, load_option_roms,
      <<"+">> \o force_dev_boot_usb, <<"-">> \o force_dev_boot_usb,
      force_dev_boot_usb,
      <<"+">> \o enable_alternate_os,
      not_a_flag, <<"c", "2">>, <<"+", "c", "2">>, <<"1", "0", "0">>, <<>> }

AdjustmentStrings ==
    { Join(ts, ",") : ts \in UNION { [1..n -> AdjustmentTokens] : n \in 0..MaxTokens } }

\* property lists of /chromeos-config
FdtPropNames ==
    << gbb_flag_prefix \o load_option_roms, <<"h", "w", "i", "d">>,
       gbb_flag_prefix \o force_dev_boot_usb, gbb_flag_prefix \o <<"b", "o", "g", "u", "s">> >>

RECURSIVE SubLists(_)
\* every sublist of a list, order kept
SubLists(l) ==
    IF l = <<>> THEN { <<>> }
    ELSE LET rest == SubLists(Tail(l))
         IN  rest \cup { <<Head(l)>> \o r : r \in rest }

\* base masks handed to DecodeGBBFlagsFromOptions by a direct caller
DirectBases == { 255, 38 }

-----------------------------------------------------------------------------
(* The GBB flag decoder as a state machine *)

GbbIdle ==
    /\ caller = "none"
    /\ chromeos_config = <<>>
    /\ adjustments = <<>>
    /\ gbb_base = 0
    /\ gbb_flags = 0
    /\ use_base_value = TRUE
    /\ flag_list = <<>>
    /\ gbb_pc = "idle"
    /\ gbb_ret = NoResult

GbbInit ==
    /\ caller \in {"_CreateGoogleBinaryBlock", "direct"}
    /\ adjustments \in AdjustmentStrings
    /\ IF caller = "direct"
       THEN /\ chromeos_config = <<>>
            /\ gbb_base \in DirectBases
            /\ gbb_pc = "options"
       ELSE /\ chromeos_config \in SubLists(FdtPropNames)
            /\ gbb_base = 0
            /\ gbb_pc = "fdt"
    /\ gbb_flags = gbb_base
    /\ use_base_value = TRUE
    /\ flag_list = <<>>
    /\ gbb_ret = NoResult

\* _CreateGoogleBinaryBlock: gbb_flags = self.DecodeGBBFlagsFromFdt()
CallDecodeGBBFlagsFromFdt ==
    /\ gbb_pc = "fdt"
    /\ LET r == DecodeGBBFlagsFromFdt(chromeos_config)
       IN  IF r.kind = "raise"
           THEN /\ gbb_ret' = r
                /\ gbb_pc' = "fdt_raised"
                /\ UNCHANGED <<gbb_base, gbb_flags>>
           ELSE /\ gbb_base' = r.value
                /\ gbb_flags' = r.value
                /\ gbb_pc' = "options"
                /\ UNCHANGED gbb_ret
    /\ UNCHANGED <<caller, chromeos_config, adjustments, use_base_value, flag_list>>
    /\ UNCHANGED not_gbb

\* DecodeGBBFlagsFromOptions up to the loop: the hex value is tried first
OptionsEnter ==
    /\ gbb_pc = "options"
    /\ use_base_value' = TRUE
    /\ IF adjustments # <<>>
       THEN LET h == OptionsHex(adjustments)
            IN  IF h.kind = "return"
                THEN /\ gbb_ret' = h
                     /\ gbb_pc' = "returned"
                     /\ UNCHANGED flag_list
                ELSE /\ flag_list' = Split(adjustments, ",")
                     /\ gbb_pc' = "loop"
                     /\ UNCHANGED gbb_ret
       ELSE /\ gbb_ret' = Returned(gbb_flags)
            /\ gbb_pc' = "returned"
            /\ UNCHANGED flag_list
    /\ UNCHANGED <<caller, chromeos_config, adjustments, gbb_base, gbb_flags>>
    /\ UNCHANGED not_gbb

\* one pass of the loop over the tokens
OptionsLoop ==
    /\ gbb_pc = "loop"
    /\ flag_list # <<>>
    /\ LET r == OptionsToken(gbb_flags, use_base_value, Head(flag_list))
       IN  IF r.raised # "no"
           THEN /\ gbb_ret' = Raised(r.raised)
                /\ gbb_pc' = "raised"
                /\ UNCHANGED <<gbb_flags, use_base_value, flag_list>>
           ELSE /\ gbb_flags' = r.flags
                /\ use_base_value' = r.use_base
                /\ flag_list' = Tail(flag_list)
                /\ UNCHANGED <<gbb_pc, gbb_ret>>
    /\ UNCHANGED <<caller, chromeos_config, adjustments, gbb_base>>
    /\ UNCHANGED not_gbb

\* "return gbb_flags" after the loop
OptionsReturn ==
    /\ gbb_pc = "loop"
    /\ flag_list = <<>>
    /\ gbb_ret' = Returned(gbb_flags)
    /\ gbb_pc' = "returned"
    /\ UNCHANGED <<caller, chromeos_config, adjustments, gbb_base, gbb_flags,
                   use_base_value, flag_list>>
    /\ UNCHANGED not_gbb

GbbNext ==
    \/ CallDecodeGBBFlagsFromFdt
    \/ OptionsEnter
    \/ OptionsLoop
    \/ OptionsReturn

-----------------------------------------------------------------------------
(* Python integers of up to 32 bits and more: hi * 65536 + lo with lo in     *)
(* 0..65535, so that every value has one representation.  None is tagged.   *)

Int32(hi, lo) == [none |-> FALSE, hi |-> hi, lo |-> lo]
None          == [none |-> TRUE, hi |-> 0, lo |-> 0]
IsInt(v)      == ~v.none

\* "if text_base": None and 0 are both false
Truthy(v) == ~v.none /\ ~(v.hi = 0 /\ v.lo = 0)

\* v - n for a small non-negative n
IntSub(v, n) ==
    LET lo == v.lo - (n % 65536)
        hi == v.hi - (n \div 65536)
    IN  IF lo < 0 THEN Int32(hi - 1, lo + 65536) ELSE Int32(hi, lo)

\* v & 0xffffffff
Mask32(v) == Int32(v.hi % 65536, v.lo)

IsUnsigned32(v) == ~v.none /\ v.hi >= 0 /\ v.hi < 65536

-----------------------------------------------------------------------------
(* DecodeTextBase *)

\* the header value 0x12345678
TextBaseMarker == Int32(4660, 22136)

\* "for start in (0, 0x4000)"
ScanStarts == <<0, 16384>>

\* "range(start, start + 160, 4)"
ScanBytes == 160

\* struct.unpack('<I', data[i:i + 4])[0] when the slice holds 4 bytes
ReadWord(data, i) == IF i \in DOMAIN data.words THEN data.words[i] ELSE Int32(0, 0)

\* whether data[i:i + 4] holds 4 bytes
HasWord(data, i) == i + 4 <= data.len

\* One pass of the inner loop at offset i of window k; found is the local of
\* that name, which the code never clears.  The pass returns, raises, or
\* goes on ("next") with the new value of found.
ScanWord(data, k, i, found) ==
    IF ~HasWord(data, i) THEN [kind |-> "raise", value |-> None, found |-> found]
    ELSE LET value == ReadWord(data, i)
         IN  IF found
             THEN [kind |-> "return", value |-> IntSub(value, ScanStarts[k]),
                   found |-> found]
             ELSE [kind |-> "next", value |-> None,
                   found |-> (value = TextBaseMarker)]

\* whether offset i is the last one of "range(start, start + 160, 4)"
LastOfWindow(k, i) == i + 4 >= ScanStarts[k] + ScanBytes

-----------------------------------------------------------------------------
(* CalcTextBase *)

\* fdt.GetInt('/chromeos-config', 'textbase', 0) & 0xffffffff
FdtTextBase(prop) == Mask32(IF prop.none THEN Int32(0, 0) ELSE prop)

\* "if text_base and text_base != fdt_text_base: fdt_text_base = text_base"
Reconcile(decoded, fdt_value) ==
    IF Truthy(decoded) /\ decoded # fdt_value THEN decoded ELSE fdt_value

\* U-Boot binaries: the length, and the words that are not zero.  Each of
\* the offsets below holds one of a few values.
WordChoices ==
    [ o \in {0, 4, 156, 160, 16384, 16388, 16540, 16544} |->
        CASE o = 0     -> {Int32(0, 0), TextBaseMarker}
          [] o = 4     -> {Int32(0, 0), Int32(16, 49152), TextBaseMarker}
          [] o = 156   -> {Int32(0, 0), TextBaseMarker}
          [] o = 160   -> {Int32(0, 0), Int32(16, 32768)}
          [] o = 16384 -> {Int32(0, 0), TextBaseMarker, Int32(0, 16384)}
          [] o = 16388 -> {Int32(0, 0), Int32(16, 49152), Int32(0, 4096)}
          [] o = 16540 -> {Int32(0, 0), TextBaseMarker}
          [] o = 16544 -> {Int32(0, 0), Int32(16, 49152)} ]

UBootLengths == {100, 1000, 16500, 20480}

UBootBinaries ==
    { [len |-> n, words |-> w] :
        n \in UBootLengths,
        w \in { f \in [DOMAIN WordChoices -> UNION { WordChoices[o] : o \in DOMAIN WordChoices }] :
                  \A o \in DOMAIN WordChoices : f[o] \in WordChoices[o] } }

\* /chromeos-config textbase as GetInt returns it (signed), or absent
FdtTextBaseValues ==
    { None, Int32(0, 0), Int32(16, 32768), Int32(16, 49152), Int32(-1, 65535),
      Int32(-32752, 32768) }

ScanIdle == [k |-> 1, i |-> 0, found |-> FALSE]

TbIdle ==
    /\ uboot_data = [len |-> 0, words |-> <<>>]
    /\ fdt_textbase = None
    /\ fdt_text_base = None
    /\ text_base = None
    /\ scan = ScanIdle
    /\ tb_pc = "idle"
    /\ tb_ret = NoResult

TbInit ==
    /\ uboot_data \in UBootBinaries
    /\ \A o \in DOMAIN uboot_data.words :
          uboot_data.words[o] # Int32(0, 0) => o + 4 <= uboot_data.len
    /\ fdt_textbase \in FdtTextBaseValues
    /\ fdt_text_base = None
    /\ text_base = None
    /\ scan = ScanIdle
    /\ tb_pc = "call"
    /\ tb_ret = NoResult

\* CalcTextBase up to the call of DecodeTextBase
CalcTextBaseEnter ==
    /\ tb_pc = "call"
    /\ fdt_text_base' = FdtTextBase(fdt_textbase)
    /\ scan' = [k |-> 1, i |-> ScanStarts[1], found |-> FALSE]
    /\ tb_pc' = "scan"
    /\ UNCHANGED <<uboot_data, fdt_textbase, text_base, tb_ret>>
    /\ UNCHANGED not_tb

\* DecodeTextBase: one pass of the inner loop, then the move to the next
\* offset, the next window, or "return None"
DecodeTextBaseWord ==
    /\ tb_pc = "scan"
    /\ LET r == ScanWord(uboot_data, scan.k, scan.i, scan.found)
       IN  CASE r.kind = "raise" ->
                  /\ tb_ret' = Raised("struct.error")
                  /\ tb_pc' = "raised"
                  /\ UNCHANGED <<text_base, scan>>
             [] r.kind = "return" ->
                  /\ text_base' = r.value
                  /\ tb_pc' = "decoded"
                  /\ UNCHANGED <<tb_ret, scan>>
             [] r.kind = "next" /\ ~LastOfWindow(scan.k, scan.i) ->
                  /\ scan' = [scan EXCEPT !.i = scan.i + 4, !.found = r.found]
                  /\ UNCHANGED <<text_base, tb_pc, tb_ret>>
             [] r.kind = "next" /\ LastOfWindow(scan.k, scan.i)
                  /\ scan.k < Len(ScanStarts) ->
                  /\ scan' = [k |-> scan.k + 1, i |-> ScanStarts[scan.k + 1],
                              found |-> r.found]
                  /\ UNCHANGED <<text_base, tb_pc, tb_ret>>
             [] OTHER ->
                  /\ text_base' = None
                  /\ scan' = [scan EXCEPT !.found = r.found]
                  /\ tb_pc' = "decoded"
                  /\ UNCHANGED tb_ret
    /\ UNCHANGED <<uboot_data, fdt_textbase, fdt_text_base>>
    /\ UNCHANGED not_tb

\* CalcTextBase after DecodeTextBase returned
CalcTextBaseReturn ==
    /\ tb_pc = "decoded"
    /\ tb_ret' = Returned(Reconcile(text_base, fdt_text_base))
    /\ tb_pc' = "returned"
    /\ UNCHANGED <<uboot_data, fdt_textbase, fdt_text_base, text_base, scan>>
    /\ UNCHANGED not_tb

TbNext ==
    \/ CalcTextBaseEnter
    \/ DecodeTextBaseWord
    \/ CalcTextBaseReturn

-----------------------------------------------------------------------------
(* Binary data: sequences of bytes, indexed from 0 as in Python *)

Min(a, b) == IF a < b THEN a ELSE b

\* data[a:b] for 0 <= a, 0 <= b
Slice(data, a, b) ==
    IF a >= Min(b, Len(data)) THEN <<>> ELSE SubSeq(data, a + 1, Min(b, Len(data)))

\* data[a:] for 0 <= a
SliceFrom(data, a) == Slice(data, a, Len(data))

\* data[:-4]
AllButLast4(data) == IF Len(data) <= 4 THEN <<>> ELSE SubSeq(data, 1, Len(data) - 4)

\* data.rfind(pat): the last index where pat occurs, -1 when it does not occur
RFind(data, pat) ==
    LET at == { i \in 0..(Len(data) - Len(pat)) : Slice(data, i, i + Len(pat)) = pat }
    IN  IF at = {} THEN -1 ELSE CHOOSE i \in at : \A j \in at : j <= i

\* data.find(byte): the first index where it occurs, -1 when it does not occur
Find(data, byte) ==
    LET at == { i \in 0..(Len(data) - 1) : data[i + 1] = byte }
    IN  IF at = {} THEN -1 ELSE CHOOSE i \in at : \A j \in at : i <= j

\* struct.unpack('<L', four)[0]
Unpack32(four) == Int32(four[3] + 256 * four[4], four[1] + 256 * four[2])

\* struct.pack('<L', v) for 0 <= v < 2^32
Pack32(v) == << v.lo % 256, v.lo \div 256, v.hi % 256, v.hi \div 256 >>

\* a Python integer of small magnitude
IntOf(n) == Int32(n \div 65536, n % 65536)

RECURSIVE SumBytes(_)
SumBytes(data) == IF data = <<>> THEN 0 ELSE Head(data) + SumBytes(Tail(data))

-----------------------------------------------------------------------------
(* _UpdateBl2Parameters *)

\* struct.pack('<L', 0xdeadbeef)
Bl2Marker == <<239, 190, 173, 222>>

not_given == "not-given-invalid-value"
mem_types == <<"ddr2", "ddr3", "lpddr2", "lpddr3">>
mem_manufs == <<"autodetect", "elpida", "samsung">>

\* list.index(x)
IndexIn(list, x) == (CHOOSE i \in 1..Len(list) : list[i] = x) - 1
InList(list, x) == \E i \in 1..Len(list) : list[i] = x

\* the character codes of the parameter names
Chr(c) == CASE c = "m" -> 109 [] c = "M" -> 77 [] c = "f" -> 102
            [] c = "v" -> 118 [] c = "u" -> 117 [] c = "b" -> 98

\* every parameter taken as unknown: the value is left as read
ParamValue_LeftAsRead(param, value, fdt, load_size, source) == Returned(value)

\* every condition that only warns taken as fatal: an unknown code, a value
\* the device tree does not give, a clock that is not 533, 667 or 800 MHz
ParamValue_WarningsAreFatal(param, value, fdt, load_size, source) ==
    CASE param = Chr("m") ->
           IF ~InList(mem_types, fdt.mem_type) THEN Raised("CmdError: memory type")
           ELSE Returned(IntOf(IndexIn(mem_types, fdt.mem_type)))
      [] param = Chr("M") ->
           IF ~InList(mem_manufs, fdt.mem_manuf)
           THEN Raised("CmdError: memory manufacturer")
           ELSE Returned(IntOf(IndexIn(mem_manufs, fdt.mem_manuf)))
      [] param = Chr("f") ->
           IF (fdt.clock_frequency \div 1000000) \notin {533, 667, 800}
           THEN Raised("CmdError: memory frequency")
           ELSE Returned(IntOf(fdt.clock_frequency \div 1000000))
      [] param = Chr("v") -> Returned(IntOf(31))
      [] param = Chr("u") -> Returned(IntOf(((load_size + 4095) \div 4096) * 4096))
      [] param = Chr("b") ->
           CASE source = "straps" -> Returned(IntOf(32))
             [] source = "emmc" -> Returned(IntOf(4))
             [] source = "spi" -> Returned(IntOf(20))
             [] source = "usb" -> Returned(IntOf(33))
             [] OTHER -> Raised("CmdError: boot source")
      [] OTHER -> Raised("CmdError: unknown machine parameter")

\* The value written for one parameter, given the value read from its slot;
\* fdt answers GetString / GetInt with the given defaults.
ParamValue(param, value, fdt, load_size, source) ==
    CASE param = Chr("m") ->
           LET got      == fdt.mem_type
               mem_type == IF got = not_given THEN "ddr3" ELSE got
           IN  IF ~InList(mem_types, mem_type) THEN Raised("CmdError: memory type")
               ELSE Returned(IntOf(IndexIn(mem_types, mem_type)))
      [] param = Chr("M") ->
           LET got       == fdt.mem_manuf
               mem_manuf == IF got = not_given THEN "samsung" ELSE got
           IN  IF ~InList(mem_manufs, mem_manuf)
               THEN Raised("CmdError: memory manufacturer")
               ELSE Returned(IntOf(IndexIn(mem_manufs, mem_manuf)))
      [] param = Chr("f") ->
           LET got      == fdt.clock_frequency
               mem_freq == IF got = -1 THEN 800000000 ELSE got
           IN  Returned(IntOf(mem_freq \div 1000000))
      [] param = Chr("v") -> Returned(IntOf(31))
      [] param = Chr("u") -> Returned(IntOf(((load_size + 4095) \div 4096) * 4096))
      [] param = Chr("b") ->
           CASE source = "straps" -> Returned(IntOf(32))
             [] source = "emmc" -> Returned(IntOf(4))
             [] source = "spi" -> Returned(IntOf(20))
             [] source = "usb" -> Returned(IntOf(33))
             [] OTHER -> Raised("CmdError: boot source")
      [] OTHER -> Returned(value)

RECURSIVE ParamLoop(_, _, _, _, _, _, _)
\* "for param in param_list": upto = 4 * the number of parameters done
ParamLoop(params, data, pos, new_data, fdt, load_size, source) ==
    IF params = <<>> THEN Returned(new_data)
    ELSE LET upto == Len(new_data)
             slot == Slice(data, pos + upto, pos + upto + 4)
         IN  IF Len(slot) # 4 THEN Raised("struct.error")
             ELSE LET r == ParamValue(Head(params), Unpack32(slot), fdt, load_size,
                                      source)
                  IN  IF r.kind = "raise" THEN r
                      ELSE IF ~IsUnsigned32(r.value) THEN Raised("struct.error")
                      ELSE ParamLoop(Tail(params), data, pos,
                                     new_data \o Pack32(r.value), fdt, load_size,
                                     source)

\* the header check without the test of the declared size
HeaderCheck_SizeUnchecked(data, pos) ==
    LET header == Slice(data, pos + 4, pos + 12)
    IN  IF Len(header) # 8 THEN "struct.error"
        ELSE IF Unpack32(SubSeq(header, 1, 4)) # IntOf(1) THEN "CmdError: version"
        ELSE "ok"

\* the header checks: the version must be 1, the block must fit
HeaderCheck(data, pos) ==
    LET header == Slice(data, pos + 4, pos + 12)
    IN  IF Len(header) # 8 THEN "struct.error"
        ELSE LET version == Unpack32(SubSeq(header, 1, 4))
                 size    == Unpack32(SubSeq(header, 5, 8))
             IN  IF version # IntOf(1) THEN "CmdError: version"
                 ELSE IF size.hi > 0 \/ pos + size.lo > Len(data)
                 THEN "CmdError: size"
                 ELSE "ok"

\* _UpdateBl2Parameters(fdt, spl_load_size, data, pos)
UpdateBl2Parameters(fdt, load_size, source, data, pos) ==
    IF HeaderCheck(data, pos) # "ok" THEN Raised(HeaderCheck(data, pos))
    ELSE LET list_pos   == pos + 12
             all        == SliceFrom(data, list_pos)
             param_len  == Find(all, 0)
             param_list == IF param_len = -1 THEN Slice(all, 0, Len(all) - 1)
                           ELSE Slice(all, 0, param_len)
             val_pos    == list_pos + 4 * ((param_len + 4) \div 4)
             r          == ParamLoop(param_list, data, val_pos, <<>>, fdt, load_size,
                                     source)
         IN  IF r.kind = "raise" THEN r
             ELSE Returned(Slice(data, 0, val_pos) \o r.value
                           \o SliceFrom(data, val_pos + Len(r.value)))

\* _UpdateChecksum summing every byte, the old checksum field included
UpdateChecksum_SumsAll(data) ==
    AllButLast4(data) \o Pack32(Mask32(IntOf(SumBytes(data))))

\* _UpdateChecksum(data)
UpdateChecksum(data) ==
    AllButLast4(data) \o Pack32(Mask32(IntOf(SumBytes(AllButLast4(data)))))

\* "pos = data.rfind(marker); if not pos: raise"
Bl2NotFound(pos) == pos = 0

-----------------------------------------------------------------------------
(* Inputs of ConfigureExynosBl2 *)

\* what precedes the parameter block: nothing, three bytes of code, or code
\* holding an earlier marker followed by a version 2 header
Bl2Prefixes ==
    { <<>>, <<7, 7, 7>>,
      <<1, 1, 1, 1>> \o Bl2Marker \o <<2, 0, 0, 0, 0, 0, 0, 0>> }

\* the first word of the block: the marker, nothing, or the marker's bytes
\* in big-endian order
Bl2FirstWords == { Bl2Marker, <<>>, <<222, 173, 190, 239>> }

Bl2Versions == { <<1, 0, 0, 0>>, <<2, 0, 0, 0>> }

\* NUL-terminated parameter lists, padded to a multiple of 4
Bl2ParamLists ==
    { <<Chr("m"), Chr("v"), 0, 0>>, <<Chr("u"), Chr("b"), 0, 0>>,
      <<Chr("M"), Chr("f"), 0, 0>>, <<120, Chr("v"), 0, 0>>,
      <<Chr("m"), Chr("M"), Chr("f"), Chr("v"), 0, 0, 0, 0>>, <<0, 0, 0, 0>> }

\* the number of parameters of a list
ParamCount(plist) == Find(plist, 0)

RECURSIVE Repeat(_, _)
Repeat(bytes, n) == IF n = 0 THEN <<>> ELSE bytes \o Repeat(bytes, n - 1)

\* what the value slots hold before patching
Bl2SlotFills == { <<1, 2, 3, 4>>, <<170, 187, 204, 221>> }

\* what follows the value slots: the checksum alone, code and the checksum,
\* or a blob cut inside its last value slot
Bl2Endings == { "checksum", "code", "cut" }

Bl2Blob(prefix, first, version, sizekind, plist, fill, ending, tail) ==
    LET slots == Repeat(fill, ParamCount(plist))
        rest  == CASE ending = "checksum" -> slots \o tail
                   [] ending = "code" -> slots \o <<5, 6>> \o tail
                   [] OTHER -> Slice(slots, 0, Len(slots) - 2)
        block == Len(first) + 8 + Len(plist) + Len(rest)
        size  == CASE sizekind = "fit" -> <<block, 0, 0, 0>>
                   [] sizekind = "big" -> <<200, 0, 0, 0>>
                   [] OTHER -> <<0, 0, 0, 0>>
    IN  prefix \o first \o version \o size \o plist \o rest

Bl2Blobs ==
    { Bl2Blob(p, f, v, s, l, i, e, t) :
        p \in Bl2Prefixes, f \in Bl2FirstWords, v \in Bl2Versions,
        s \in {"fit", "big", "zero"}, l \in Bl2ParamLists, i \in Bl2SlotFills,
        e \in Bl2Endings, t \in { <<0, 0, 0, 0>>, <<9, 9, 9, 9>> } }
    \cup
    \* a block whose parameter list has no terminating NUL
    { Bl2Marker \o <<1, 0, 0, 0, 20, 0, 0, 0>>
        \o <<Chr("v"), Chr("v"), Chr("v"), Chr("v"), 9, 9, 9, 9>> }

\* the device tree's /dmc values (GetString and GetInt with the defaults of
\* the code when a value is absent) and the boot source
Bl2Settings ==
    { [fdt |-> [mem_type |-> not_given, mem_manuf |-> not_given,
                clock_frequency |-> -1], source |-> "straps"],
      [fdt |-> [mem_type |-> "lpddr3", mem_manuf |-> "elpida",
                clock_frequency |-> 667000000], source |-> "spi"],
      [fdt |-> [mem_type |-> "ddr2", mem_manuf |-> "autodetect",
                clock_frequency |-> 533000000], source |-> "emmc"],
      [fdt |-> [mem_type |-> "ddr3", mem_manuf |-> "samsung",
                clock_frequency |-> 400000000], source |-> "usb"],
      [fdt |-> [mem_type |-> "ddr4", mem_manuf |-> "samsung",
                clock_frequency |-> 800000000], source |-> "straps"],
      [fdt |-> [mem_type |-> "ddr3", mem_manuf |-> "hynix",
                clock_frequency |-> -1], source |-> "spi"],
      [fdt |-> [mem_type |-> "lpddr2", mem_manuf |-> not_given,
                clock_frequency |-> 1066000000], source |-> "nand"] }

SplLoadSizes == { 4096, 5000 }

\* the copy written over the file it was read from
Bl2Path_InPlace(name) == "smdk5250-spl.bin"

\* "bl2 = os.path.join(self._tools.outdir, 'updated-spl%s.bin' % name)"
Bl2Path(name) == "updated-spl" \o name \o ".bin"

NotWritten == [written |-> FALSE, data |-> <<>>]
Written(data) == [written |-> TRUE, data |-> data]
\* self._tools.WriteFile(fname, data)
WriteFile(files, fname, data) == [files EXCEPT ![fname] = Written(data)]

\* the files ConfigureExynosBl2 deals with: the input and outdir's copy
Bl2Files(input, data, copy) == (input :> Written(data)) @@ (Bl2Path("") :> copy)

\* line 286: the default name of the BL2 file
Bl2InputNames == { "smdk5250-spl.bin" }

Bl2Idle ==
    /\ exynos_bl2 = ""
    /\ orig_bl2 = <<>>
    /\ bl2_file = NotWritten
    /\ bl2_fdt = [mem_type |-> not_given, mem_manuf |-> not_given,
                  clock_frequency |-> -1]
    /\ spl_load_size = 0
    /\ spl_source = "straps"
    /\ bl2_pos = -1
    /\ bl2_pc = "idle"
    /\ bl2_ret = NoResult

Bl2Init ==
    /\ exynos_bl2 \in Bl2InputNames
    /\ orig_bl2 \in Bl2Blobs
    /\ bl2_file = NotWritten
    /\ \E s \in Bl2Settings : bl2_fdt = s.fdt /\ spl_source = s.source
    /\ spl_load_size \in SplLoadSizes
    /\ bl2_pos = -1
    /\ bl2_pc = "call"
    /\ bl2_ret = NoResult

\* ConfigureExynosBl2(fdt, spl_load_size, orig_bl2): the copy is written,
\* read back, patched and written again
ConfigureExynosBl2 ==
    /\ bl2_pc = "call"
    /\ LET bl2   == Bl2Path("")
           data  == orig_bl2
           files == WriteFile(Bl2Files(exynos_bl2, orig_bl2, bl2_file), bl2, data)
           pos   == RFind(files[bl2].data, Bl2Marker)
           r     == UpdateBl2Parameters(bl2_fdt, spl_load_size, spl_source,
                                        files[bl2].data, pos)
           after == IF Bl2NotFound(pos) \/ r.kind = "raise" THEN files
                    ELSE WriteFile(files, bl2, UpdateChecksum(r.value))
       IN  /\ bl2_pos' = pos
           /\ orig_bl2' = after[exynos_bl2].data
           /\ bl2_file' = after[bl2]
           /\ IF Bl2NotFound(pos)
              THEN /\ bl2_ret' = Raised("CmdError: parameter block not found")
                   /\ bl2_pc' = "raised"
              ELSE IF r.kind = "raise"
              THEN /\ bl2_ret' = r
                   /\ bl2_pc' = "raised"
              ELSE /\ bl2_ret' = Returned(bl2)
                   /\ bl2_pc' = "returned"
    /\ UNCHANGED <<exynos_bl2, bl2_fdt, spl_load_size, spl_source>>
    /\ UNCHANGED not_bl2

Bl2Next == ConfigureExynosBl2

-----------------------------------------------------------------------------
(* _SignBootstub and _CreateBootStub                                        *)
(* A file is a sequence of parts; each part is a record that says which     *)
(* data it is and how many bytes it has.  data + data is \o.                *)

\* the U-Boot binary read from the file uboot
UBootPart(uboot) == [file |-> "u-boot", size |-> uboot.len, data |-> uboot]
\* the fdt copy bootstub.dtb with its /config postload-text-offset
DtbPart(fdt, offset) ==
    [file |-> "bootstub.dtb", size |-> fdt.size,
     postload_text_offset |-> offset]
\* the post-load binary
PostloadPart(n) == [file |-> "u-boot-post.bin", size |-> n]
\* what cbootimage makes of a boot loader under a config file
SignedPart(config, bootloader, n) ==
    [file |-> "signed.bin", size |-> n, config |-> config,
     bootloader |-> bootloader]

RECURSIVE Size(_)
\* len(data)
Size(data) == IF data = <<>> THEN 0 ELSE Head(data).size + Size(Tail(data))

\* a length as a Python integer
IntOfLen(n) == Int32(n \div 65536, n % 65536)

\* the offset 0 in place of the value that says there is no post-load binary
NoPostloadOffset_Zero == Int32(0, 0)

\* "fdt.PutInteger('/config', 'postload-text-offset', 0xffffffff)"
NoPostloadOffset == Int32(65535, 65535)

OutdirFiles ==
    { "u-boot-fdt.bin", "bootstub.dtb", "boot.cfg", "signed.bin",
      "u-boot-fdt-postload.bin", "postload.bin", "signed-postload.bin" }

\* cbootimage is an external tool: it fails, or writes an image of one of
\* these sizes
CbootimageOutcomes ==
    { [fails |-> TRUE, size |-> 0] }
      \cup { [fails |-> FALSE, size |-> n] : n \in {8192, 12288} }

\* _SignBootstub going on after a run of cbootimage that failed
SignBootstub_FailureIgnored(files, stub, tb, outcome) ==
    LET config == [BootLoader |-> stub, text_base |-> tb]
        image == <<SignedPart(config, files[stub].data, outcome.size)>>
    IN  [raised |-> FALSE,
         files |-> [files EXCEPT !["boot.cfg"] = Written(<<config>>),
                                 !["signed.bin"] = Written(image)],
         run |-> [config |-> config, bootloader |-> files[stub].data,
                  signed |-> image, failed |-> outcome.fails]]

\* _SignBootstub(bct, bootstub, text_base): boot.cfg is written, cbootimage
\* is run on it and writes signed.bin.  Yields the new files, the record of
\* the run, and whether the run raised.
SignBootstub(files, stub, tb, outcome) ==
    LET config == [BootLoader |-> stub, text_base |-> tb]
        with_config == [files EXCEPT !["boot.cfg"] = Written(<<config>>)]
        image == <<SignedPart(config, files[stub].data, outcome.size)>>
    IN  IF outcome.fails
        THEN [raised |-> TRUE, files |-> with_config,
              run |-> [config |-> config, bootloader |-> files[stub].data,
                       signed |-> <<>>, failed |-> TRUE]]
        ELSE [raised |-> FALSE,
              files |-> [with_config EXCEPT !["signed.bin"] = Written(image)],
              run |-> [config |-> config, bootloader |-> files[stub].data,
                       signed |-> image, failed |-> FALSE]]

\* the boot stub left as it was, the post-load binary not appended
BootstubWithPostload_NotAppended(files, stub, post) == files[stub].data

\* "bs_data = ReadFile(bootstub); bs_data += ReadFile(postload)"
BootstubWithPostload(files, stub, post) == files[stub].data \o post.data

\* the size check of _CreateBootStub left out
SizeChanged_Ignored(data_len, signed_size) == FALSE

\* "if len(data) != os.path.getsize(signed)"
SizeChanged(data_len, signed_size) == data_len # signed_size

-----------------------------------------------------------------------------
(* _CreateBootStub as a state machine.  Its call of CalcTextBase is the      *)
(* TEXT_BASE resolver above, run on the file uboot.                          *)

NoPostload == [given |-> FALSE, data |-> <<>>]
Postload(n) == [given |-> TRUE, data |-> <<PostloadPart(n)>>]

PostloadSizes == {0, 512, 70000}
BaseFdts == { [size |-> 4096], [size |-> 6000] }

\* the U-Boot binaries the boot stub is built from: short or long, with or
\* without the TEXT_BASE marker at 0 and at 0x4000
BootStubUBoots ==
    { u \in UBootBinaries :
        /\ u.len \in {1000, 20480}
        /\ u.words[4] # TextBaseMarker
        /\ u.words[156] = Int32(0, 0) /\ u.words[160] = Int32(0, 0)
        /\ u.words[16384] # Int32(0, 16384)
        /\ u.words[16388] # Int32(0, 4096)
        /\ u.words[16540] = Int32(0, 0) /\ u.words[16544] = Int32(0, 0) }

BsIdle ==
    /\ base_fdt = [size |-> 0]
    /\ postload = NoPostload
    /\ bs_text_base = None
    /\ bs_files = [f \in OutdirFiles |-> NotWritten]
    /\ bs_data = <<>>
    /\ bootstub = ""
    /\ cbootimage = <<>>
    /\ bs_pc = "idle"
    /\ bs_ret = NoResult

BsInit ==
    /\ base_fdt \in BaseFdts
    /\ postload \in {NoPostload} \cup { Postload(n) : n \in PostloadSizes }
    /\ bs_text_base = None
    /\ bs_files = [f \in OutdirFiles |-> NotWritten]
    /\ bs_data = <<>>
    /\ bootstub = ""
    /\ cbootimage = <<>>
    /\ bs_pc = "call"
    /\ bs_ret = NoResult

\* lines 667-679: the load address, the fdt copy, the unsigned boot stub
CreateBootStubUnsigned ==
    /\ bs_pc = "call"
    /\ tb_pc \in {"returned", "raised"}
    /\ bootstub' = "u-boot-fdt.bin"
    /\ IF tb_ret.kind = "raise"
       THEN /\ bs_pc' = "raised"
            /\ bs_ret' = tb_ret
            /\ UNCHANGED <<bs_text_base, bs_files>>
       ELSE LET fdt_data == <<DtbPart(base_fdt, NoPostloadOffset)>>
            IN  /\ bs_text_base' = tb_ret.value
                /\ bs_files' =
                     [bs_files EXCEPT
                        !["bootstub.dtb"] = Written(fdt_data),
                        !["u-boot-fdt.bin"] =
                            Written(<<UBootPart(uboot_data)>> \o fdt_data)]
                /\ bs_pc' = "Unsigned"
                /\ UNCHANGED bs_ret
    /\ UNCHANGED <<base_fdt, postload, bs_data, cbootimage>>
    /\ UNCHANGED not_bs

\* lines 683-687: the boot stub is signed, data is the signed image
CreateBootStubSigned ==
    /\ bs_pc = "Unsigned"
    /\ \E outcome \in CbootimageOutcomes :
         LET s == SignBootstub(bs_files, bootstub, bs_text_base, outcome)
         IN  /\ bs_files' = s.files
             /\ cbootimage' = Append(cbootimage, s.run)
             /\ IF s.raised
                THEN /\ bs_pc' = "raised"
                     /\ bs_ret' = Raised("CmdError: cbootimage")
                     /\ UNCHANGED bs_data
                ELSE /\ bs_data' = s.files["signed.bin"].data
                     /\ bs_pc' = "Signed"
                     /\ UNCHANGED bs_ret
    /\ UNCHANGED <<base_fdt, postload, bs_text_base, bootstub>>
    /\ UNCHANGED not_bs

\* lines 689-712: the post-load binary is appended to the boot stub, the
\* offset is put into the fdt copy, and U-Boot with that fdt is signed again
CreateBootStubReSigned ==
    /\ bs_pc = "Signed"
    /\ postload.given
    /\ bootstub' = "u-boot-fdt-postload.bin"
    /\ LET fdt_data == <<DtbPart(base_fdt, IntOfLen(Size(bs_data)))>>
           files == [bs_files EXCEPT
                       !["u-boot-fdt-postload.bin"] =
                           Written(BootstubWithPostload(bs_files, bootstub,
                                                        postload)),
                       !["bootstub.dtb"] = Written(fdt_data),
                       !["postload.bin"] =
                           Written(<<UBootPart(uboot_data)>> \o fdt_data)]
       IN  \E outcome \in CbootimageOutcomes :
             LET s == SignBootstub(files, "postload.bin", bs_text_base, outcome)
             IN  /\ bs_files' = s.files
                 /\ cbootimage' = Append(cbootimage, s.run)
                 /\ IF s.raised
                    THEN /\ bs_pc' = "raised"
                         /\ bs_ret' = Raised("CmdError: cbootimage")
                         /\ UNCHANGED bs_data
                    ELSE IF SizeChanged(Size(bs_data),
                                        Size(s.files["signed.bin"].data))
                    THEN /\ bs_pc' = "raised"
                         /\ bs_ret' = Raised("CmdError: Signed file size changed")
                         /\ UNCHANGED bs_data
                    ELSE /\ bs_data' = s.files["signed.bin"].data \o postload.data
                         /\ bs_pc' = "ReSignedWithOffset"
                         /\ UNCHANGED bs_ret
    /\ UNCHANGED <<base_fdt, postload, bs_text_base>>
    /\ UNCHANGED not_bs

\* lines 714-717: the final image is written and both names are returned
CreateBootStubFinal ==
    /\ \/ bs_pc = "ReSignedWithOffset"
       \/ bs_pc = "Signed" /\ ~postload.given
    /\ bs_files' = [bs_files EXCEPT !["signed-postload.bin"] = Written(bs_data)]
    /\ bs_ret' = Returned(<<bootstub, "signed-postload.bin">>)
    /\ bs_pc' = "Final"
    /\ UNCHANGED <<base_fdt, postload, bs_text_base, bs_data, bootstub,
                   cbootimage>>
    /\ UNCHANGED not_bs

BsNext ==
    \/ CalcTextBaseEnter
    \/ DecodeTextBaseWord
    \/ CalcTextBaseReturn
    \/ CreateBootStubUnsigned
    \/ CreateBootStubSigned
    \/ CreateBootStubReSigned
    \/ CreateBootStubFinal

-----------------------------------------------------------------------------
(* The packer (PackFirmware) as Bundle uses it: a map from property names to *)
(* values, and the entries of the flash map.  An entry names the blob types  *)
(* it asks for, the parameters of its blob, the properties it is packed      *)
(* from, and whether it is required.                                         *)

Range(s) == { s[i] : i \in 1..Len(s) }

NoProps == <<>>
\* pack.AddProperty(name, value)
AddProperty(props, name, value) ==
    [n \in (DOMAIN props) \cup {name} |-> IF n = name THEN value ELSE props[n]]
\* pack.GetProperty(name): the value, None ("") when there is none
GetProperty(props, name) == IF name \in DOMAIN props THEN props[name] ELSE ""

RECURSIVE GetBlobList(_)
\* pack.GetBlobList(): the blob types of the flash map, in its order
GetBlobList(entries) ==
    IF entries = <<>> THEN <<>>
    ELSE Head(entries).blobs \o GetBlobList(Tail(entries))

\* pack.GetBlobParams(blob_type)
GetBlobParams(entries, blob_type) ==
    IF \E i \in 1..Len(entries) : blob_type \in Range(entries[i].blobs)
    THEN entries[CHOOSE i \in 1..Len(entries) :
                    blob_type \in Range(entries[i].blobs)].params
    ELSE <<>>

\* pack.CheckProperties() after pack.RequireAllEntries() or without it:
\* whether every entry that has to be there has its properties
CheckProperties(entries, props, all_required) ==
    \A i \in 1..Len(entries) :
        (entries[i].required \/ all_required) =>
            \A n \in entries[i].needs : GetProperty(props, n) # ""

Entry(blobs, params, needs, required) ==
    [blobs |-> blobs, params |-> params, needs |-> needs, required |-> required]

\* default_flashmaps['tegra']
FlashmapTegra == << Entry(<<"signed">>, <<>>, {"signed"}, TRUE) >>
\* default_flashmaps['daisy']
FlashmapDaisy ==
    << Entry(<<"exynos-bl1">>, <<>>, {"exynos-bl1"}, TRUE),
       Entry(<<"exynos-bl2">>, <<"boot", "dtb">>, {"exynos-bl2"}, TRUE),
       Entry(<<"boot", "dtb">>, <<>>, {"boot", "dtb"}, TRUE) >>
\* default_flashmaps['link']
FlashmapLink ==
    << Entry(<<>>, <<>>, {}, TRUE),
       Entry(<<"coreboot">>, <<>>, {"coreboot"}, TRUE) >>
\* a flash map from a device tree: signed boot stub, GBB, firmware id, key
\* block, and the entries of a verified boot image that a small build need
\* not fill
FlashmapFull ==
    << Entry(<<"signed">>, <<>>, {"signed"}, TRUE),
       Entry(<<"gbb">>, <<>>, {"gbb"}, FALSE),
       Entry(<<>>, <<>>, {"fwid"}, FALSE),
       Entry(<<>>, <<>>, {"keydir"}, FALSE) >>
\* one with the EC images and a legacy payload, and a data file nothing
\* supplies
FlashmapEc ==
    << Entry(<<"ecbin", "ecrw", "ecro", "legacy">>, <<>>,
             {"ecbin", "ecrw", "ecro", "legacy"}, TRUE),
       Entry(<<>>, <<>>, {"bmpblk"}, FALSE) >>
\* one that asks for a blob type nothing builds, and a BL2 without parameters
FlashmapUnknown ==
    << Entry(<<"exynos-bl1", "skeleton", "bogus">>, <<>>, {"exynos-bl1"}, TRUE) >>
FlashmapBl2NoParams ==
    << Entry(<<"exynos-bl2">>, <<>>, {"exynos-bl2"}, TRUE) >>

Flashmaps ==
    { FlashmapTegra, FlashmapDaisy, FlashmapLink, FlashmapFull, FlashmapEc,
      FlashmapUnknown, FlashmapBl2NoParams }

-----------------------------------------------------------------------------
(* Start, _CreateGoogleBinaryBlock, _CreateImage and _BuildBlob              *)

\* the file names CheckOptions and SelectFdt leave in the Bundle
uboot_fname    == "build/u-boot.bin"
skeleton_fname == "build/coreboot.rom"
coreboot_fname == "build/coreboot.rom"
seabios_fname  == "seabios.cbfs"
exynos_bl1     == "build/E5250.nbl1.bin"
ecrw_fname     == "build/ec.RW.bin"
ecro_fname     == "build/ec.RO.bin"
fdt_fname      == "updated.dtb"
keydir         == "keys"

Stage(name, blob_type) == [stage |-> name, blob |-> blob_type]

\* lines 991-1010: the properties _CreateImage adds before it builds blobs
FirstProperties ==
    AddProperty(
      AddProperty(
        AddProperty(
          AddProperty(
            AddProperty(
              AddProperty(NoProps, "boot", uboot_fname),
              "skeleton", skeleton_fname),
            "dtb", fdt_fname),
          "dtb-rwa", "updated-rwa.dtb"),
        "dtb-rwb", "updated-rwb.dtb"),
      "gbb", uboot_fname)

\* _BuildBlob with the pass-through branch putting None in place of the
\* property
BuildBlob_PassThroughCleared(pack, blob_type) ==
    Returned(AddProperty(pack, blob_type, ""))

\* _BuildBlob(pack, fdt, blob_type) for the blob types it builds without
\* _CreateBootStub and ConfigureExynosBl2: the properties after it, or the
\* error it raises
BuildBlob(pack, blob_type) ==
    CASE blob_type = "coreboot" ->
           Returned(AddProperty(AddProperty(pack, "coreboot", "coreboot-full.rom"),
                                "image", "coreboot-full.rom"))
      [] blob_type = "legacy" ->
           Returned(AddProperty(pack, "legacy", seabios_fname))
      [] blob_type = "exynos-bl1" ->
           Returned(AddProperty(pack, blob_type, exynos_bl1))
      [] blob_type \in {"ecrw", "ecbin"} ->
           Returned(AddProperty(AddProperty(pack, "ecrw", ecrw_fname),
                                "ecbin", ecrw_fname))
      [] blob_type = "ecro" ->
           Returned(AddProperty(pack, blob_type, "updated-ecro.bin"))
      [] OTHER ->
           IF GetProperty(pack, blob_type) # ""
           THEN Returned(pack)
           ELSE Raised("CmdError: Unknown blob type")

\* the files _BuildBlob writes for a blob type
BuildBlobFiles(blob_type) ==
    CASE blob_type = "coreboot" -> {"coreboot-full.rom"}
      [] blob_type = "ecro" -> {"updated-ecro.bin"}
      [] OTHER -> {}

\* lines 914-916: the properties of a signed boot stub
SignedProperties(pack, names) ==
    AddProperty(AddProperty(AddProperty(pack, "bootstub", names[1]),
                            "signed", names[2]),
                "image", names[2])

\* lines 1017-1025: what a build with a GBB adds before CheckProperties
GbbProperties(pack, gbb_path) ==
    IF gbb_path # ""
    THEN AddProperty(AddProperty(AddProperty(pack, "fwid", "model.version"),
                                 "gbb", gbb_path),
                     "keydir", keydir)
    ELSE pack

-----------------------------------------------------------------------------
(* Start as a state machine.  _CreateGoogleBinaryBlock runs the GBB flag     *)
(* decoder, _BuildBlob runs _CreateBootStub for 'signed' and                 *)
(* ConfigureExynosBl2 for 'exynos-bl2'; these stay idle until they are       *)
(* called.                                                                   *)

NoFiles == <<>>

StIdle ==
    /\ small = FALSE
    /\ hardware_id = ""
    /\ fdt_hwid = ""
    /\ output_fname = ""
    /\ flashmap = <<>>
    /\ gbb = ""
    /\ pack_props = NoProps
    /\ require_all = FALSE
    /\ blob_list = <<>>
    /\ st_files = NoFiles
    /\ stages = <<>>
    /\ st_pc = "idle"
    /\ st_ret = NoResult

StInit ==
    /\ small \in BOOLEAN
    /\ hardware_id \in {"", "HWID-1"}
    /\ fdt_hwid \in {"", "HWID-FDT"}
    /\ output_fname \in {"", "image-out.bin"}
    /\ flashmap \in Flashmaps
    /\ gbb = ""
    /\ pack_props = NoProps
    /\ require_all = FALSE
    /\ blob_list = <<>>
    /\ st_files = NoFiles
    /\ stages = <<>>
    /\ st_pc = "call"
    /\ st_ret = NoResult

\* the arguments and locals of the components Start calls
gbb_locals == <<caller, chromeos_config, adjustments, gbb_base, gbb_flags,
                use_base_value, flag_list, gbb_ret>>
tb_locals  == <<uboot_data, fdt_textbase, fdt_text_base, text_base, scan, tb_ret>>
bs_locals  == <<base_fdt, postload, bs_text_base, bs_files, bs_data, bootstub,
                cbootimage, bs_ret>>
bl2_locals == <<exynos_bl2, orig_bl2, bl2_file, bl2_fdt, spl_source, bl2_pos,
                bl2_ret>>

\* lines 1115-1117, 404-406: Start, and the hardware id of the GBB
Start ==
    /\ st_pc = "call"
    /\ IF small
       THEN /\ st_pc' = "_CreateImage"
            /\ UNCHANGED <<stages, st_ret, gbb_pc>>
       ELSE /\ stages' = Append(stages, Stage("_CreateGoogleBinaryBlock", ""))
            /\ IF hardware_id = "" /\ fdt_hwid = ""
               THEN /\ st_pc' = "raised"
                    /\ st_ret' = Raised("CmdError: fdtget hwid")
                    /\ UNCHANGED gbb_pc
               ELSE /\ st_pc' = "_CreateGoogleBinaryBlock"
                    /\ gbb_pc' = "fdt"
                    /\ UNCHANGED st_ret
    /\ UNCHANGED <<small, hardware_id, fdt_hwid, output_fname, flashmap, gbb,
                   pack_props, require_all, blob_list, st_files>>
    /\ UNCHANGED <<gbb_locals, tb_vars, bl2_vars, bs_vars>>
    /\ UNCHANGED own_vars

\* lines 414-429: the decoded flags go to gbb_utility, which makes gbb.bin
CreateGoogleBinaryBlock ==
    /\ st_pc = "_CreateGoogleBinaryBlock"
    /\ gbb_pc \in {"returned", "raised", "fdt_raised"}
    /\ IF gbb_ret.kind = "raise"
       THEN /\ st_pc' = "raised"
            /\ st_ret' = gbb_ret
            /\ UNCHANGED <<gbb, st_files>>
       ELSE \E runs \in BOOLEAN :
              IF runs
              THEN /\ gbb' = "gbb.bin"
                   /\ st_files' =
                        AddProperty(st_files, "gbb.bin",
                            [hwid  |-> IF hardware_id # "" THEN hardware_id
                                       ELSE fdt_hwid,
                             flags |-> gbb_ret.value])
                   /\ st_pc' = "_CreateImage"
                   /\ UNCHANGED st_ret
              ELSE /\ st_pc' = "raised"
                   /\ st_ret' = Raised("CmdError: gbb_utility")
                   /\ UNCHANGED <<gbb, st_files>>
    /\ UNCHANGED <<small, hardware_id, fdt_hwid, output_fname, flashmap,
                   pack_props, require_all, blob_list, stages>>
    /\ UNCHANGED <<gbb_vars, tb_vars, bl2_vars, bs_vars>>
    /\ UNCHANGED own_vars

\* lines 979-1012: the packer is set up and the list of blobs is read
CreateImage ==
    /\ st_pc = "_CreateImage"
    /\ pack_props' = FirstProperties
    /\ blob_list' = GetBlobList(flashmap)
    /\ stages' = Append(stages, Stage("_CreateImage", ""))
    /\ st_pc' = "_BuildBlob"
    /\ UNCHANGED <<small, hardware_id, fdt_hwid, output_fname, flashmap, gbb,
                   require_all, st_files, st_ret>>
    /\ UNCHANGED <<gbb_vars, tb_vars, bl2_vars, bs_vars>>
    /\ UNCHANGED own_vars

\* lines 1013-1014, 904-936, 956-960: the next blob, of a type that needs
\* neither _CreateBootStub nor ConfigureExynosBl2
BuildBlobSimple ==
    /\ st_pc = "_BuildBlob"
    /\ blob_list # <<>>
    /\ Head(blob_list) \notin {"signed", "exynos-bl2"}
    /\ stages' = Append(stages, Stage("_BuildBlob", Head(blob_list)))
    /\ LET r == BuildBlob(pack_props, Head(blob_list))
       IN  IF r.kind = "raise"
           THEN /\ st_pc' = "raised"
                /\ st_ret' = r
                /\ UNCHANGED <<pack_props, blob_list, st_files>>
           ELSE /\ pack_props' = r.value
                /\ blob_list' = Tail(blob_list)
                /\ st_files' =
                     [n \in (DOMAIN st_files) \cup BuildBlobFiles(Head(blob_list)) |->
                        IF n \in BuildBlobFiles(Head(blob_list))
                        THEN [copy |-> Head(blob_list)] ELSE st_files[n]]
                /\ UNCHANGED <<st_pc, st_ret>>
    /\ UNCHANGED <<small, hardware_id, fdt_hwid, output_fname, flashmap, gbb,
                   require_all>>
    /\ UNCHANGED <<gbb_vars, tb_vars, bl2_vars, bs_vars>>
    /\ UNCHANGED own_vars

\* lines 911-913: _BuildBlob calls _CreateBootStub
BuildBlobSigned ==
    /\ st_pc = "_BuildBlob"
    /\ blob_list # <<>>
    /\ Head(blob_list) = "signed"
    /\ stages' = Append(stages, Stage("_BuildBlob", "signed"))
    /\ st_pc' = "_CreateBootStub"
    /\ bs_pc' = "call"
    /\ tb_pc' = "call"
    /\ UNCHANGED <<small, hardware_id, fdt_hwid, output_fname, flashmap, gbb,
                   pack_props, require_all, blob_list, st_files, st_ret>>
    /\ UNCHANGED <<gbb_vars, tb_locals, bl2_vars, bs_locals>>
    /\ UNCHANGED own_vars

\* lines 914-916: _CreateBootStub is back
BuildBlobSignedDone ==
    /\ st_pc = "_CreateBootStub"
    /\ bs_pc \in {"Final", "raised"}
    /\ IF bs_ret.kind = "raise"
       THEN /\ st_pc' = "raised"
            /\ st_ret' = bs_ret
            /\ UNCHANGED <<pack_props, blob_list>>
       ELSE /\ pack_props' = SignedProperties(pack_props, bs_ret.value)
            /\ blob_list' = Tail(blob_list)
            /\ st_pc' = "_BuildBlob"
            /\ UNCHANGED st_ret
    /\ UNCHANGED <<small, hardware_id, fdt_hwid, output_fname, flashmap, gbb,
                   require_all, st_files, stages>>
    /\ UNCHANGED <<gbb_vars, tb_vars, bl2_vars, bs_vars>>
    /\ UNCHANGED own_vars

\* lines 937-954: the size SPL has to load, and the call of
\* ConfigureExynosBl2.  Without parameters the size is that of the file of
\* the property 'boot+dtb', which nothing adds: os.stat(None) raises.
BuildBlobExynosBl2 ==
    /\ st_pc = "_BuildBlob"
    /\ blob_list # <<>>
    /\ Head(blob_list) = "exynos-bl2"
    /\ stages' = Append(stages, Stage("_BuildBlob", "exynos-bl2"))
    /\ IF GetBlobParams(flashmap, "exynos-bl2") = <<>>
          /\ GetProperty(pack_props, "boot+dtb") = ""
       THEN /\ st_pc' = "raised"
            /\ st_ret' = Raised("TypeError")
            /\ UNCHANGED <<bl2_pc, spl_load_size>>
       ELSE /\ spl_load_size' = uboot_data.len + base_fdt.size
            /\ bl2_pc' = "call"
            /\ st_pc' = "ConfigureExynosBl2"
            /\ UNCHANGED st_ret
    /\ UNCHANGED <<small, hardware_id, fdt_hwid, output_fname, flashmap, gbb,
                   pack_props, require_all, blob_list, st_files>>
    /\ UNCHANGED <<gbb_vars, tb_vars, bl2_locals, bs_vars>>
    /\ UNCHANGED own_vars

\* line 955: ConfigureExynosBl2 is back
BuildBlobExynosBl2Done ==
    /\ st_pc = "ConfigureExynosBl2"
    /\ bl2_pc \in {"returned", "raised"}
    /\ IF bl2_ret.kind = "raise"
       THEN /\ st_pc' = "raised"
            /\ st_ret' = bl2_ret
            /\ UNCHANGED <<pack_props, blob_list>>
       ELSE /\ pack_props' = AddProperty(pack_props, "exynos-bl2", bl2_ret.value)
            /\ blob_list' = Tail(blob_list)
            /\ st_pc' = "_BuildBlob"
            /\ UNCHANGED st_ret
    /\ UNCHANGED <<small, hardware_id, fdt_hwid, output_fname, flashmap, gbb,
                   require_all, st_files, stages>>
    /\ UNCHANGED <<gbb_vars, tb_vars, bl2_vars, bs_vars>>
    /\ UNCHANGED own_vars

\* the files _CreateImage writes before it packs (lines 1035-1041)
UBootCopies(files) ==
    AddProperty(AddProperty(files, "u-boot.bin", [copy |-> "boot"]),
                "u-boot-dtb.bin", [copy |-> "boot+dtb"])

\* lines 1016-1027: the properties of a build with a GBB, and the check that
\* the entries which have to be there have their properties
CreateImageCheck ==
    /\ st_pc = "_BuildBlob"
    /\ blob_list = <<>>
    /\ require_all' = (gbb # "")
    /\ pack_props' = GbbProperties(pack_props, gbb)
    /\ stages' = Append(stages, Stage("CheckProperties", ""))
    /\ IF CheckProperties(flashmap, pack_props', require_all')
       THEN /\ st_pc' = "PackImage"
            /\ UNCHANGED st_ret
       ELSE /\ st_pc' = "raised"
            /\ st_ret' = Raised("CmdError: CheckProperties")
    /\ UNCHANGED <<small, hardware_id, fdt_hwid, output_fname, flashmap, gbb,
                   blob_list, st_files>>
    /\ UNCHANGED <<gbb_vars, tb_vars, bl2_vars, bs_vars>>
    /\ UNCHANGED own_vars

\* lines 1029-1068: the copies of U-Boot, the coreboot payload added by
\* cbfstool, and the image packed by the packer; both tools can fail
CreateImagePack ==
    /\ st_pc = "PackImage"
    /\ stages' = Append(stages, Stage("PackImage", ""))
    /\ \E tools \in {"run", "cbfstool fails", "PackImage fails"} :
         LET coreboot == "coreboot" \in Range(GetBlobList(flashmap))
             copies   == UBootCopies(st_files)
             fixed    == IF coreboot
                         THEN AddProperty(copies, "coreboot-8mb.rom",
                                          [copy |-> "coreboot"])
                         ELSE copies
         IN  IF coreboot /\ tools = "cbfstool fails"
             THEN /\ st_files' = copies
                  /\ st_pc' = "raised"
                  /\ st_ret' = Raised("CmdError: cbfstool")
                  /\ UNCHANGED pack_props
             ELSE IF tools = "PackImage fails"
             THEN /\ st_files' = fixed
                  /\ st_pc' = "raised"
                  /\ st_ret' = Raised("CmdError: PackImage")
                  /\ UNCHANGED pack_props
             ELSE /\ st_files' = AddProperty(fixed, "image.bin",
                                             [packed |-> pack_props])
                  /\ pack_props' = AddProperty(pack_props, "image", "image.bin")
                  /\ st_pc' = "packed"
                  /\ UNCHANGED st_ret
    /\ UNCHANGED <<small, hardware_id, fdt_hwid, output_fname, flashmap, gbb,
                   require_all, blob_list>>
    /\ UNCHANGED <<gbb_vars, tb_vars, bl2_vars, bs_vars>>
    /\ UNCHANGED own_vars

\* lines 1119-1125: the image is copied to output_fname and returned with
\* the properties
StartReturn ==
    /\ st_pc = "packed"
    /\ st_files' = IF output_fname # ""
                   THEN AddProperty(st_files, output_fname,
                                    st_files[GetProperty(pack_props, "image")])
                   ELSE st_files
    /\ st_ret' = Returned([image |-> GetProperty(pack_props, "image"),
                           props |-> pack_props])
    /\ st_pc' = "returned"
    /\ UNCHANGED <<small, hardware_id, fdt_hwid, output_fname, flashmap, gbb,
                   pack_props, require_all, blob_list, stages>>
    /\ UNCHANGED <<gbb_vars, tb_vars, bl2_vars, bs_vars>>
    /\ UNCHANGED own_vars

StNext ==
    \/ Start
    \/ CallDecodeGBBFlagsFromFdt
    \/ OptionsEnter
    \/ OptionsLoop
    \/ OptionsReturn
    \/ CreateGoogleBinaryBlock
    \/ CreateImage
    \/ BuildBlobSimple
    \/ BuildBlobSigned
    \/ CalcTextBaseEnter
    \/ DecodeTextBaseWord
    \/ CalcTextBaseReturn
    \/ CreateBootStubUnsigned
    \/ CreateBootStubSigned
    \/ CreateBootStubReSigned
    \/ CreateBootStubFinal
    \/ BuildBlobSignedDone
    \/ BuildBlobExynosBl2
    \/ ConfigureExynosBl2
    \/ BuildBlobExynosBl2Done
    \/ CreateImageCheck
    \/ CreateImagePack
    \/ StartReturn

-----------------------------------------------------------------------------
(* common_util.SafeSandboxAccess                                             *)
(* Paths are Python strings.  os.path.realpath is modelled for a file tree   *)
(* without symbolic links, where it makes the path absolute and normalises   *)
(* it.                                                                       *)

Sep == "/"

\* os.getcwd() of the server
Cwd == <<"/", "w">>

\* os.path.join(a, b)
PathJoin(a, b) ==
    IF b # <<>> /\ Head(b) = Sep THEN b
    ELSE IF a = <<>> \/ a[Len(a)] = Sep THEN a \o b
    ELSE a \o <<Sep>> \o b

RECURSIVE Resolve(_, _)
\* the components of a path walked from the root: empty ones and '.' are
\* skipped, '..' goes up and stays at the root
Resolve(comps, done) ==
    IF comps = <<>> THEN done
    ELSE IF Head(comps) = <<>> \/ Head(comps) = <<".">>
         THEN Resolve(Tail(comps), done)
    ELSE IF Head(comps) = <<".", ".">>
         THEN Resolve(Tail(comps),
                      IF done = <<>> THEN done ELSE SubSeq(done, 1, Len(done) - 1))
    ELSE Resolve(Tail(comps), Append(done, Head(comps)))

\* os.path.realpath(p)
Realpath(p) ==
    LET abs == IF p # <<>> /\ Head(p) = Sep THEN p ELSE PathJoin(Cwd, p)
    IN  <<Sep>> \o Join(Resolve(Split(abs, Sep), <<>>), Sep)

\* line 349: path.startswith(static_dir) and path != static_dir
InStaticDir(static, p) == StartsWith(p, static) /\ p # static

\* SafeSandboxAccess(static_dir, path)
SafeSandboxAccess(static_dir, path) ==
    InStaticDir(Realpath(static_dir), Realpath(path))

(* Inputs: paths written with the names a, ab and b, with '.', '..' and     *)
(* empty components, absolute or relative to the working directory.          *)
MaxDepth == 3
PathNames == { <<"a">>, <<"a", "b">>, <<"b">>, <<".", ".">>, <<>> }

PathsOfDepth(n) == [1..n -> PathNames]

SandboxPaths ==
    { <<Sep>> \o Join(c, Sep) : c \in UNION { PathsOfDepth(n) : n \in 0..MaxDepth } }
    \cup { <<"a">>, <<".", ".", Sep, "w", "a">> }

SandboxStaticDirs ==
    { <<Sep>>, <<Sep, "a">>, <<Sep, "a", Sep>>, <<Sep, "a", Sep, "b">>,
      <<Sep, "a", "b">>, <<Sep, "b", Sep, ".", ".", Sep, "a">>, <<>>,
      <<Sep, "w">> }

SbIdle ==
    /\ sb_static_dir = <<>>
    /\ sb_path = <<>>
    /\ sb_pc = "idle"
    /\ sb_ret = NoResult

SbInit ==
    /\ sb_static_dir \in SandboxStaticDirs
    /\ sb_path \in SandboxPaths
    /\ sb_pc = "call"
    /\ sb_ret = NoResult

\* lines 347-349
SafeSandboxAccessCall ==
    /\ sb_pc = "call"
    /\ sb_ret' = Returned(SafeSandboxAccess(sb_static_dir, sb_path))
    /\ sb_pc' = "returned"
    /\ UNCHANGED <<sb_static_dir, sb_path>>
    /\ UNCHANGED not_sb

SbNext == SafeSandboxAccessCall

-----------------------------------------------------------------------------
(* common_util.AcquireLock and ReleaseLock                                   *)
(* Processes of the server call AcquireLock(static_dir, tag, create_once)    *)
(* and, once it has returned, ReleaseLock(static_dir, tag, destroy), all for *)
(* the same static_dir and tag.  A step is one operation on the file system: *)
(* os.makedirs, lock.acquire(timeout=0), lock.break_lock, shutil.rmtree.     *)
(* lockfile.FileLock is the library's: acquire(timeout=0) links the lock     *)
(* file atomically or raises AlreadyLocked, and raises LockFailed when it    *)
(* cannot make its own file; break_lock removes the lock file, whoever holds *)
(* it.                                                                       *)

NumProcs == 3
Procs == 1..NumProcs

StaticDir == <<Sep, "s">>
LockTags == { <<"R", "7">>, <<"R", "7", Sep, "a", "u">>, <<>>, <<".", ".">> }

\* line 371, 417
build_dir == PathJoin(StaticDir, lk_tag)

\* the defaults of create_once and destroy
DefaultArgs == [create_once |-> TRUE, destroy |-> FALSE]

LkIdle ==
    /\ lk_tag = <<>>
    /\ lk_dir = FALSE
    /\ lk_file = 0
    /\ lk_args = [p \in Procs |-> DefaultArgs]
    /\ is_created = [p \in Procs |-> FALSE]
    /\ lk_fault = FALSE
    /\ lk_pc = [p \in Procs |-> "idle"]
    /\ lk_ret = [p \in Procs |-> NoResult]

\* the directory may be there from a build that was staged before
LkInit ==
    /\ lk_tag \in LockTags
    /\ lk_dir \in BOOLEAN
    /\ lk_file = 0
    /\ lk_args = [p \in Procs |-> DefaultArgs]
    /\ is_created = [p \in Procs |-> FALSE]
    /\ lk_fault = FALSE
    /\ lk_pc = [p \in Procs |-> "idle"]
    /\ lk_ret = [p \in Procs |-> NoResult]

\* lines 371-376
AcquireLockCall(p) ==
    /\ lk_pc[p] = "idle"
    /\ \E once \in BOOLEAN :
         lk_args' = [lk_args EXCEPT ![p].create_once = once]
    /\ IF ~SafeSandboxAccess(StaticDir, build_dir)
       THEN /\ lk_pc' = [lk_pc EXCEPT ![p] = "raised"]
            /\ lk_ret' = [lk_ret EXCEPT ![p] = Raised("CommonUtilError")]
       ELSE /\ lk_pc' = [lk_pc EXCEPT ![p] = "makedirs"]
            /\ UNCHANGED lk_ret
    /\ UNCHANGED <<lk_tag, lk_dir, lk_file, is_created, lk_fault>>
    /\ UNCHANGED not_lk

\* lines 377-385: os.makedirs(build_dir) makes the directory or fails with
\* EEXIST
Makedirs(p) ==
    /\ lk_pc[p] = "makedirs"
    /\ IF ~lk_dir
       THEN /\ lk_dir' = TRUE
            /\ is_created' = [is_created EXCEPT ![p] = TRUE]
            /\ lk_pc' = [lk_pc EXCEPT ![p] = "acquire"]
            /\ UNCHANGED lk_ret
       ELSE IF lk_args[p].create_once
       THEN /\ lk_pc' = [lk_pc EXCEPT ![p] = "raised"]
            /\ lk_ret' = [lk_ret EXCEPT ![p] = Raised("CommonUtilError")]
            /\ UNCHANGED <<lk_dir, is_created>>
       ELSE /\ lk_pc' = [lk_pc EXCEPT ![p] = "acquire"]
            /\ UNCHANGED <<lk_dir, is_created, lk_ret>>
    /\ UNCHANGED <<lk_tag, lk_file, lk_args, lk_fault>>
    /\ UNCHANGED not_lk

\* what lock.acquire(timeout=0) can do: without the directory it cannot make
\* its file; with it, it takes the lock if the lock file is not there and
\* raises AlreadyLocked if it is; and it can fail for a reason of its own
AcquireOutcomes ==
    IF ~lk_dir THEN {"LockFailed"}
    ELSE IF lk_file = 0 THEN {"locked", "fault"}
    ELSE {"AlreadyLocked", "fault"}

\* lines 388-393, 400
LockAcquire(p) ==
    /\ lk_pc[p] = "acquire"
    /\ \E outcome \in AcquireOutcomes :
         CASE outcome = "locked" ->
                /\ lk_file' = p
                /\ lk_pc' = [lk_pc EXCEPT ![p] = "returned"]
                /\ lk_ret' = [lk_ret EXCEPT ![p] = Returned(build_dir)]
                /\ UNCHANGED lk_fault
           [] outcome = "AlreadyLocked" ->
                /\ lk_pc' = [lk_pc EXCEPT ![p] = "raised"]
                /\ lk_ret' = [lk_ret EXCEPT ![p] = Raised("CommonUtilError")]
                /\ UNCHANGED <<lk_file, lk_fault>>
           [] OTHER ->
                /\ lk_pc' = [lk_pc EXCEPT ![p] = "except"]
                /\ lk_fault' = (lk_fault \/ outcome = "fault")
                /\ UNCHANGED <<lk_file, lk_ret>>
    /\ UNCHANGED <<lk_tag, lk_dir, lk_args, is_created>>
    /\ UNCHANGED not_lk

\* lines 393-398: the directory is removed if this call made it, and the
\* error is raised again; shutil.rmtree of a directory that is gone raises
\* an error of its own
AcquireExcept(p) ==
    /\ lk_pc[p] = "except"
    /\ IF is_created[p] /\ lk_dir
       THEN /\ lk_dir' = FALSE
            /\ lk_file' = 0
            /\ lk_ret' = [lk_ret EXCEPT ![p] = Raised("LockFailed")]
       ELSE /\ lk_ret' = [lk_ret EXCEPT ![p] =
                            IF is_created[p] THEN Raised("OSError")
                            ELSE Raised("LockFailed")]
            /\ UNCHANGED <<lk_dir, lk_file>>
    /\ lk_pc' = [lk_pc EXCEPT ![p] = "raised"]
    /\ UNCHANGED <<lk_tag, lk_args, is_created, lk_fault>>
    /\ UNCHANGED not_lk

\* lines 417-421, by a process whose AcquireLock has returned
ReleaseLockCall(p) ==
    /\ lk_pc[p] = "returned"
    /\ \E destroy \in BOOLEAN :
         lk_args' = [lk_args EXCEPT ![p].destroy = destroy]
    /\ IF ~SafeSandboxAccess(StaticDir, build_dir)
       THEN /\ lk_pc' = [lk_pc EXCEPT ![p] = "release raised"]
            /\ lk_ret' = [lk_ret EXCEPT ![p] = Raised("CommonUtilError")]
       ELSE /\ lk_pc' = [lk_pc EXCEPT ![p] = "break_lock"]
            /\ UNCHANGED lk_ret
    /\ UNCHANGED <<lk_tag, lk_dir, lk_file, is_created, lk_fault>>
    /\ UNCHANGED not_lk

\* line 423: lock.break_lock() removes the lock file if there is one
BreakLock(p) ==
    /\ lk_pc[p] = "break_lock"
    /\ lk_file' = 0
    /\ lk_pc' = [lk_pc EXCEPT ![p] = IF lk_args[p].destroy THEN "rmtree"
                                     ELSE "released"]
    /\ UNCHANGED <<lk_tag, lk_dir, lk_args, is_created, lk_fault, lk_ret>>
    /\ UNCHANGED not_lk

\* ReleaseLock with destroy leaving the directory where it is
Rmtree_KeepsDirectory(p) ==
    /\ lk_pc[p] = "rmtree"
    /\ lk_pc' = [lk_pc EXCEPT ![p] = "released"]
    /\ UNCHANGED <<lk_tag, lk_dir, lk_file, lk_args, is_created, lk_fault, lk_ret>>
    /\ UNCHANGED not_lk

\* lines 424-427: shutil.rmtree(build_dir)
Rmtree(p) ==
    /\ lk_pc[p] = "rmtree"
    /\ IF lk_dir
       THEN /\ lk_dir' = FALSE
            /\ lk_file' = 0
            /\ lk_pc' = [lk_pc EXCEPT ![p] = "released"]
            /\ UNCHANGED lk_ret
       ELSE /\ lk_pc' = [lk_pc EXCEPT ![p] = "release raised"]
            /\ lk_ret' = [lk_ret EXCEPT ![p] = Raised("CommonUtilError")]
            /\ UNCHANGED <<lk_dir, lk_file>>
    /\ UNCHANGED <<lk_tag, lk_args, is_created, lk_fault>>
    /\ UNCHANGED not_lk

LkNext ==
    \/ \E p \in Procs : AcquireLockCall(p)
    \/ \E p \in Procs : Makedirs(p)
    \/ \E p \in Procs : LockAcquire(p)
    \/ \E p \in Procs : AcquireExcept(p)
    \/ \E p \in Procs : ReleaseLockCall(p)
    \/ \E p \in Procs : BreakLock(p)
    \/ \E p \in Procs : Rmtree(p)

-----------------------------------------------------------------------------
(* _BuildBlob for the blob type ecro: the read-only EC image is copied to   *)
(* updated-ecro.bin with the name of its fmap mangled.  File contents are  *)
(* strings: sequences of characters.                                        *)

\* '__FMAP__' and '__fMAP__'
FmapName    == <<"_", "_", "F", "M", "A", "P", "_", "_">>
MangledName == <<"_", "_", "f", "M", "A", "P", "_", "_">>

RECURSIVE ReSub(_, _, _)
\* re.sub(pattern, repl, string) for a pattern of plain characters: the
\* matches are taken from left to right and do not overlap
ReSub(pattern, repl, string) ==
    IF Len(string) < Len(pattern) THEN string
    ELSE IF StartsWith(string, pattern)
    THEN repl \o ReSub(pattern, repl, SubSeq(string, Len(pattern) + 1, Len(string)))
    ELSE <<Head(string)>> \o ReSub(pattern, repl, Tail(string))

\* EC images: up to MaxPieces pieces one after the other
MaxPieces == 3
EcroPieces == { FmapName, <<"F", "M", "A", "P", "_", "_">>, <<"_">>, <<"x">> }

RECURSIVE EcroImagesOf(_)
EcroImagesOf(n) ==
    IF n = 0 THEN { <<>> }
    ELSE EcroImagesOf(n - 1)
           \cup { s \o p : s \in EcroImagesOf(n - 1), p \in EcroPieces }

EcroImages == EcroImagesOf(MaxPieces)

EcIdle ==
    /\ ecro_data = <<>>
    /\ updated_ecro = NotWritten
    /\ ec_pc = "idle"

EcInit ==
    /\ ecro_data \in EcroImages
    /\ updated_ecro = NotWritten
    /\ ec_pc = "call"

\* lines 924-936
BuildBlobEcro ==
    /\ ec_pc = "call"
    /\ LET data == ReSub(FmapName, MangledName, ecro_data)
       IN  updated_ecro' = Written(data)
    /\ ec_pc' = "returned"
    /\ UNCHANGED ecro_data
    /\ UNCHANGED not_ec

EcNext == BuildBlobEcro

-----------------------------------------------------------------------------
(* SetNodeEnabled.  The device tree is a function from <<node, property>>  *)
(* to the value of the property; names and values are strings.             *)

\* fdt.GetString(node, prop, default)
GetString(tree, node, prop, default) ==
    IF <<node, prop>> \in DOMAIN tree THEN tree[<<node, prop>>] ELSE default

\* fdt.PutString(node, prop, value)
PutString(tree, node, prop, value) ==
    [k \in (DOMAIN tree) \cup { <<node, prop>> } |->
        IF k = <<node, prop>> THEN value ELSE tree[k]]

Aliases     == <<"/", "a", "l", "i", "a", "s", "e", "s">>
Status      == <<"s", "t", "a", "t", "u", "s">>
Okay        == <<"o", "k", "a", "y">>
Disabled    == <<"d", "i", "s", "a", "b", "l", "e", "d">>

\* SetNodeEnabled writing to the node of the empty name when the alias is
\* not found
SetNodeEnabled_WritesUnresolved(tree, name, on) ==
    LET node == IF StartsWith(name, <<"/">>) THEN name
                ELSE GetString(tree, Aliases, name, <<>>)
        status == IF on THEN Okay ELSE Disabled
    IN  [tree |-> PutString(tree, node, Status, status),
         puts |-> << <<node, Status, status>> >>,
         warned |-> 0]

\* SetNodeEnabled(node_name, enabled): the device tree after the call, the
\* calls of PutString it made and the number of warnings
SetNodeEnabled(tree, name, on) ==
    LET lookup == GetString(tree, Aliases, name, <<>>)
        is_alias == ~StartsWith(name, <<"/">>)
        node == IF is_alias THEN lookup ELSE name
        status == IF on THEN Okay ELSE Disabled
    IN  IF is_alias /\ lookup = <<>>
        THEN [tree |-> tree, puts |-> <<>>, warned |-> 1]
        ELSE [tree |-> PutString(tree, node, Status, status),
              puts |-> << <<node, Status, status>> >>,
              warned |-> 0]

\* nodes /u and /i, aliases c and s, a name that is no alias, the empty name
Uart == <<"/", "u">>
I2c  == <<"/", "i">>
NodeNames == { Uart, I2c, <<"c">>, <<"s">>, <<"x">>, <<>> }

\* a device tree with one property, or none when the value is "absent"
Prop(node, prop, value) ==
    IF value = <<"absent">> THEN <<>> ELSE (<<node, prop>> :> value)

\* device trees: /u has a reg property and maybe a status, /i maybe a
\* status, /aliases maybe c (to /u, or empty) and s (to /i)
Trees ==
    { Prop(Uart, <<"r", "e", "g">>, <<"1">>)
        @@ Prop(Uart, Status, su) @@ Prop(I2c, Status, si)
        @@ Prop(Aliases, <<"c">>, ac) @@ Prop(Aliases, <<"s">>, as) :
        su \in { <<"absent">>, Okay, Disabled },
        si \in { <<"absent">>, Okay },
        ac \in { <<"absent">>, Uart, <<>> },
        as \in { <<"absent">>, I2c } }

NeIdle ==
    /\ ne_fdt = <<>>
    /\ node_name = <<>>
    /\ enabled = FALSE
    /\ fdt_puts = <<>>
    /\ warnings = 0
    /\ ne_pc = "idle"

NeInit ==
    /\ ne_fdt \in Trees
    /\ node_name \in NodeNames
    /\ enabled \in BOOLEAN
    /\ fdt_puts = <<>>
    /\ warnings = 0
    /\ ne_pc = "call"

\* lines 485-526: SetNodeEnabled(node_name, enabled)
SetNodeEnabledCall ==
    /\ ne_pc = "call"
    /\ LET r == SetNodeEnabled(ne_fdt, node_name, enabled)
       IN  /\ ne_fdt' = r.tree
           /\ fdt_puts' = fdt_puts \o r.puts
           /\ warnings' = warnings + r.warned
    /\ ne_pc' = "returned"
    /\ UNCHANGED <<node_name, enabled>>
    /\ UNCHANGED not_ne

NeNext == SetNodeEnabledCall

-----------------------------------------------------------------------------
(* Specifications *)

vars == <<gbb_vars, tb_vars, bl2_vars, bs_vars, st_vars, cu_vars, ec_vars,
          ne_vars>>

SpecGbbInit ==
    /\ GbbInit /\ TbIdle /\ Bl2Idle /\ BsIdle /\ StIdle /\ SbIdle /\ LkIdle
    /\ EcIdle /\ NeIdle
SpecGbb == SpecGbbInit /\ [][GbbNext]_vars

SpecTextBaseInit ==
    /\ TbInit /\ GbbIdle /\ Bl2Idle /\ BsIdle /\ StIdle /\ SbIdle /\ LkIdle
    /\ EcIdle /\ NeIdle
SpecTextBase == SpecTextBaseInit /\ [][TbNext]_vars

SpecBl2Init ==
    /\ Bl2Init /\ GbbIdle /\ TbIdle /\ BsIdle /\ StIdle /\ SbIdle /\ LkIdle
    /\ EcIdle /\ NeIdle
SpecBl2 == SpecBl2Init /\ [][Bl2Next]_vars

SpecBootStubInit ==
    /\ BsInit /\ GbbIdle /\ Bl2Idle /\ StIdle /\ SbIdle /\ LkIdle
    /\ EcIdle /\ NeIdle
    /\ TbInit
    /\ uboot_data \in BootStubUBoots
    /\ fdt_textbase \in {None, Int32(16, 32768)}
SpecBootStub == SpecBootStubInit /\ [][BsNext]_vars

\* The inputs of a build: those of a component Start does not get to call
\* stay at their idle values.
SpecStartInit ==
    /\ StInit /\ SbIdle /\ LkIdle /\ EcIdle /\ NeIdle
    /\ IF small
       THEN GbbIdle
       ELSE /\ caller = "_CreateGoogleBinaryBlock"
            /\ chromeos_config \in
                 { <<>>, <<gbb_flag_prefix \o load_option_roms>>,
                   <<gbb_flag_prefix \o <<"b", "o", "g", "u", "s">> >> }
            /\ adjustments \in
                 { <<>>, <<"+">> \o force_dev_boot_usb, not_a_flag }
            /\ gbb_base = 0 /\ gbb_flags = 0
            /\ use_base_value = TRUE /\ flag_list = <<>>
            /\ gbb_pc = "idle" /\ gbb_ret = NoResult
    /\ uboot_data \in { u \in BootStubUBoots :
                           /\ u.words[4] = Int32(16, 49152)
                           /\ u.words[16384] = Int32(0, 0)
                           /\ u.words[16388] = Int32(0, 0) }
    /\ fdt_textbase = Int32(16, 32768)
    /\ fdt_text_base = None /\ text_base = None /\ scan = ScanIdle
    /\ tb_pc = "idle" /\ tb_ret = NoResult
    /\ base_fdt = [size |-> 4096]
    /\ postload \in IF "signed" \in Range(GetBlobList(flashmap))
                     THEN {NoPostload, Postload(512)} ELSE {NoPostload}
    /\ bs_text_base = None
    /\ bs_files = [f \in OutdirFiles |-> NotWritten]
    /\ bs_data = <<>> /\ bootstub = "" /\ cbootimage = <<>>
    /\ bs_pc = "idle" /\ bs_ret = NoResult
    /\ exynos_bl2 = "smdk5250-spl.bin"
    /\ IF "exynos-bl2" \in Range(GetBlobList(flashmap))
       THEN orig_bl2 \in
              { Bl2Blob(<<7, 7, 7>>, f, <<1, 0, 0, 0>>, "fit",
                        <<Chr("u"), Chr("b"), 0, 0>>, <<1, 2, 3, 4>>, "checksum",
                        <<9, 9, 9, 9>>) : f \in Bl2FirstWords }
       ELSE orig_bl2 = <<>>
    /\ bl2_file = NotWritten
    /\ bl2_fdt = [mem_type |-> not_given, mem_manuf |-> not_given,
                  clock_frequency |-> -1]
    /\ spl_load_size = 0 /\ spl_source = "straps"
    /\ bl2_pos = -1 /\ bl2_pc = "idle" /\ bl2_ret = NoResult
SpecStart == SpecStartInit /\ [][StNext]_vars

SpecSandboxInit ==
    /\ SbInit /\ GbbIdle /\ TbIdle /\ Bl2Idle /\ BsIdle /\ StIdle /\ LkIdle
    /\ EcIdle /\ NeIdle
SpecSandbox == SpecSandboxInit /\ [][SbNext]_vars

SpecLockInit ==
    /\ LkInit /\ GbbIdle /\ TbIdle /\ Bl2Idle /\ BsIdle /\ StIdle /\ SbIdle
    /\ EcIdle /\ NeIdle
SpecLock == SpecLockInit /\ [][LkNext]_vars

SpecEcroInit ==
    /\ EcInit /\ GbbIdle /\ TbIdle /\ Bl2Idle /\ BsIdle /\ StIdle /\ SbIdle
    /\ LkIdle /\ NeIdle
SpecEcro == SpecEcroInit /\ [][EcNext]_vars

SpecNodeInit ==
    /\ NeInit /\ GbbIdle /\ TbIdle /\ Bl2Idle /\ BsIdle /\ StIdle /\ SbIdle
    /\ LkIdle /\ EcIdle
SpecNode == SpecNodeInit /\ [][NeNext]_vars

-----------------------------------------------------------------------------
(* Properties of the GBB flag decoder *)

TokensOf(adj) == Split(adj, ",")
IsSigned(tok) == tok # <<>> /\ Head(tok) \in {"+", "-"}
TokenName(tok) == IF IsSigned(tok) THEN Tail(tok) ELSE tok
AllSignedKnown(toks) ==
    \A i \in 1..Len(toks) : IsSigned(toks[i]) /\ HasFlag(TokenName(toks[i]))
AllBareKnown(toks) ==
    \A i \in 1..Len(toks) : ~IsSigned(toks[i]) /\ HasFlag(toks[i])
OptionsFinished == gbb_pc \in {"returned", "raised"}

RECURSIVE FoldTokens(_, _)
\* the tokens applied left to right to v: +name sets, -name clears, a bare
\* name sets
FoldTokens(v, toks) ==
    IF toks = <<>> THEN v
    ELSE LET bit == FlagValue(TokenName(Head(toks)))
         IN  FoldTokens(IF IsSigned(Head(toks)) /\ Head(Head(toks)) = "-"
                        THEN BitAndNot(v, bit) ELSE BitOr(v, bit),
                        Tail(toks))

\* C1: a list of +name / -name tokens with known names is applied left to
\* right against the base B without resetting it; "+a,-b,+c" yields
\* ((B | a) & ~b) | c for every base B and known flags a, b, c.
C1_SignedTokensLeftToRight ==
    LET toks == TokensOf(adjustments)
    IN  (gbb_pc = "returned" /\ adjustments # <<>> /\ AllSignedKnown(toks)) =>
          /\ gbb_ret = Returned(FoldTokens(gbb_base, toks))
          /\ (Len(toks) = 3 /\ Head(toks[1]) = "+" /\ Head(toks[2]) = "-"
                /\ Head(toks[3]) = "+") =>
               gbb_ret.value =
                 BitOr(BitAndNot(BitOr(gbb_base, FlagValue(Tail(toks[1]))),
                                 FlagValue(Tail(toks[2]))),
                       FlagValue(Tail(toks[3])))

\* "+force-dev-boot-usb,-load-option-roms,+enable-alternate-os" on a base
\* holding load-option-roms and not force-dev-boot-usb has been decoded
C1_Witness ==
    /\ gbb_pc = "returned"
    /\ TokensOf(adjustments) = << <<"+">> \o force_dev_boot_usb,
                                  <<"-">> \o load_option_roms,
                                  <<"+">> \o enable_alternate_os >>
    /\ gbb_base = 38
    /\ gbb_ret = Returned(52)

RECURSIVE DigitsValueFromRight(_)
\* the number a string of hexadecimal digits denotes
DigitsValueFromRight(s) ==
    IF s = <<>> THEN 0
    ELSE 16 * DigitsValueFromRight(SubSeq(s, 1, Len(s) - 1))
         + HexDigitValue(s[Len(s)])

IsRawHex(adj) == adj # <<>> /\ \A i \in 1..Len(adj) : IsHexDigit(adj[i])

\* C2: an adjustment string that is a raw hexadecimal bitmask yields exactly
\* the value of that number, whatever the base mask is; "c2" yields 0xc2.
C2_HexOverridesBase ==
    (gbb_pc \in {"returned", "raised", "loop"} /\ IsRawHex(adjustments)) =>
        /\ gbb_ret = Returned(DigitsValueFromRight(adjustments))
        /\ adjustments = <<"c", "2">> => gbb_ret.value = 194

\* "c2" has been decoded against a base that differs from 0xc2
C2_Witness ==
    /\ gbb_pc = "returned"
    /\ adjustments = <<"c", "2">>
    /\ gbb_base = 38
    /\ gbb_ret = Returned(194)

C4_MaskWithinFlagTable ==
    (caller = "_CreateGoogleBinaryBlock" /\ gbb_pc = "returned") =>
        /\ gbb_ret.value >= 0
        /\ BitAndNot(gbb_ret.value, FlagTableMask) = 0

HasBare(toks) == \E i \in 1..Len(toks) : ~IsSigned(toks[i])
FirstBare(toks) == CHOOSE i \in 1..Len(toks) :
                      ~IsSigned(toks[i]) /\ \A j \in 1..(i - 1) : IsSigned(toks[j])

\* C5: the first bare name resets the working value to zero, once; later
\* bare names are OR-ed in.  After every pass of the loop the working value
\* is the tokens from the first bare one on, applied to 0 (to the base when
\* no bare name was met), and a list of bare known names yields the OR of
\* their bits whatever the base is.
C5_FirstBareResetsOnce ==
    LET toks == TokensOf(adjustments)
        done == SubSeq(toks, 1, Len(toks) - Len(flag_list))
    IN  /\ gbb_pc = "loop" =>
              IF HasBare(done)
              THEN /\ ~use_base_value
                   /\ gbb_flags = FoldTokens(0, SubSeq(done, FirstBare(done), Len(done)))
              ELSE /\ use_base_value
                   /\ gbb_flags = FoldTokens(gbb_base, done)
        /\ (gbb_pc = "returned" /\ adjustments # <<>> /\ AllBareKnown(toks)) =>
              gbb_ret = Returned(FoldTokens(0, toks))

\* "load-option-roms,+enable-alternate-os,force-dev-boot-usb" has been decoded
\* against the base 0xff: two bare names, the second one met after the reset
C5_Witness ==
    /\ gbb_pc = "returned"
    /\ TokensOf(adjustments) = << load_option_roms,
                                  <<"+">> \o enable_alternate_os,
                                  force_dev_boot_usb >>
    /\ gbb_base = 255
    /\ gbb_ret = Returned(22)

-----------------------------------------------------------------------------
(* Properties of the TEXT_BASE resolver *)

WindowOffsets(k) == { ScanStarts[k] + 4 * n : n \in 0..((ScanBytes \div 4) - 1) }
MarkersIn(data, k) == { i \in WindowOffsets(k) : ReadWord(data, i) = TextBaseMarker }
Smallest(S) == CHOOSE i \in S : \A j \in S : i <= j

\* the address a scan by hand finds: in the first window that holds the
\* marker, the word after the first marker, minus the window's start
ManualScan(data) ==
    LET hit == { k \in 1..Len(ScanStarts) : MarkersIn(data, k) # {} }
    IN  IF hit = {} THEN None
        ELSE LET k == Smallest(hit)
             IN  IntSub(ReadWord(data, Smallest(MarkersIn(data, k)) + 4),
                        ScanStarts[k])

DecodeTextBaseReturned == tb_pc \in {"decoded", "returned"}

\* C8: DecodeTextBase returns what a scan of the two windows by hand finds:
\* the word after the marker minus the start of the first window that holds
\* the marker, the window at 0 first; the marker at 0x4000 followed by
\* 0x10c000 yields 0x108000.
C8_DecodeMatchesManualScan ==
    DecodeTextBaseReturned =>
        /\ text_base = ManualScan(uboot_data)
        /\ (MarkersIn(uboot_data, 1) = {}
              /\ ReadWord(uboot_data, 16384) = TextBaseMarker
              /\ ReadWord(uboot_data, 16388) = Int32(16, 49152)) =>
             text_base = Int32(16, 32768)

\* C9: a decoded address that differs from the masked device tree value is
\* the one returned, a decoded 0 included; the device tree value is returned
\* when nothing was decoded or both agree.
C9_DecodedAddressWins ==
    tb_pc = "returned" =>
        IF IsInt(text_base) /\ text_base # fdt_text_base
        THEN tb_ret = Returned(text_base)
        ELSE tb_ret = Returned(fdt_text_base)

\* C19: for a buffer of any length in which the marker 0x12345678 is in
\* neither scan window, DecodeTextBase returns None: it does not raise and
\* it returns no address.
C19_NoMarkerIsUnknown ==
    (tb_pc \in {"decoded", "returned", "raised"}
       /\ MarkersIn(uboot_data, 1) = {} /\ MarkersIn(uboot_data, 2) = {}) =>
        /\ tb_pc # "raised"
        /\ text_base = None

-----------------------------------------------------------------------------
(* Properties of the BL2 parameter patcher *)

MarkerOccurs(data) ==
    \E i \in 1..(Len(data) - 3) :
        /\ data[i] = 239 /\ data[i + 1] = 190
        /\ data[i + 2] = 173 /\ data[i + 3] = 222

Bl2Finished == bl2_pc \in {"returned", "raised"}

\* C6: for a blob in which the marker 0xdeadbeef does not occur,
\* ConfigureExynosBl2 fails with "parameter block not found" and patches
\* nothing.
C6_MissingMarkerIsFatal ==
    (Bl2Finished /\ ~MarkerOccurs(orig_bl2)) =>
        /\ bl2_ret = Raised("CmdError: parameter block not found")
        /\ bl2_file.data = orig_bl2

RECURSIVE SumUpTo(_, _)
\* the sum of the first n bytes of data
SumUpTo(data, n) == IF n = 0 THEN 0 ELSE SumUpTo(data, n - 1) + data[n]

\* C7: after ConfigureExynosBl2 has patched a blob, the checksum stored in
\* its last 4 bytes (little-endian) is the sum of all the patched bytes
\* before them, modulo 2^32.
C7_StoredChecksumIsByteSum ==
    bl2_pc = "returned" =>
        LET d == bl2_file.data
            n == Len(d)
            s == SumUpTo(d, n - 4)
        IN  /\ n >= 4
            /\ d[n - 3] = s % 256
            /\ d[n - 2] = (s \div 256) % 256
            /\ d[n - 1] = (s \div 65536) % 256
            /\ d[n] = (s \div 16777216) % 256

\* a blob found by its marker was patched: value slots changed, and the
\* checksum it came with was not the sum
C7_Witness ==
    /\ bl2_pc = "returned"
    /\ bl2_pos > 0
    /\ AllButLast4(bl2_file.data) # AllButLast4(orig_bl2)
    /\ SliceFrom(orig_bl2, Len(orig_bl2) - 4) = <<9, 9, 9, 9>>
    /\ SliceFrom(bl2_file.data, Len(orig_bl2) - 4) # <<9, 9, 9, 9>>

-----------------------------------------------------------------------------
(* Properties of the boot stub pipeline *)

\* the byte length of the image the n-th run of cbootimage wrote
SignedLength(n) == Size(cbootimage[n].signed)

\* C10: with a post-load binary, a run of _CreateBootStub that gets past the
\* second signing has a second signed image exactly as long as the first;
\* when the two lengths differ the run raises the size error and
\* signed-postload.bin is never written.
C10_ReSignedLengthIsKept ==
    /\ (postload.given /\ bs_pc \in {"ReSignedWithOffset", "Final"}) =>
          /\ Len(cbootimage) = 2
          /\ ~cbootimage[1].failed /\ ~cbootimage[2].failed
          /\ SignedLength(2) = SignedLength(1)
    /\ (Len(cbootimage) = 2 /\ ~cbootimage[2].failed
          /\ SignedLength(2) # SignedLength(1)) =>
          /\ bs_pc = "raised"
          /\ bs_ret = Raised("CmdError: Signed file size changed")
          /\ bs_files["signed-postload.bin"] = NotWritten

\* a build with a post-load binary has returned after two signings
C10_Witness ==
    /\ postload.given
    /\ bs_pc = "Final"
    /\ bs_ret.kind = "return"
    /\ Len(cbootimage) = 2
    /\ SignedLength(1) = 8192
    /\ bs_files["signed-postload.bin"].written

\* the bytes of a file: parts without bytes do not show
HasBytes(part) == part.size > 0
Bytes(data) == SelectSeq(data, HasBytes)

\* C11: _CreateBootStub returns the signed-with-postload image, which holds
\* the last signed image followed by the post-load binary if there is one,
\* and a boot stub that holds the U-Boot binary followed by the fdt copy and
\* nothing else, with and without a post-load binary.
C11_ReturnedBootstubIsPostloadFree ==
    bs_pc = "Final" =>
        /\ bs_ret.kind = "return"
        /\ Bytes(bs_files[bs_ret.value[2]].data) =
             Bytes(cbootimage[Len(cbootimage)].signed \o postload.data)
        /\ \E offset \in {NoPostloadOffset, IntOfLen(SignedLength(1))} :
             Bytes(bs_files[bs_ret.value[1]].data) =
               Bytes(<<UBootPart(uboot_data), DtbPart(base_fdt, offset)>>)

\* C11 as amended: the returned boot stub holds the U-Boot binary, the fdt
\* copy with the offset 0xffffffff, and then the post-load binary if there
\* is one; the returned signed-with-postload image holds the last signed
\* image followed by the post-load binary if there is one.
C11_ReturnedBootstubHoldsPostload ==
    bs_pc = "Final" =>
        /\ bs_ret.kind = "return"
        /\ bs_files[bs_ret.value[2]].data =
             cbootimage[Len(cbootimage)].signed \o postload.data
        /\ bs_files[bs_ret.value[1]].data =
             <<UBootPart(uboot_data), DtbPart(base_fdt, Int32(65535, 65535))>>
               \o postload.data

\* a build with a post-load binary of 512 bytes has returned
C11_Witness ==
    /\ bs_pc = "Final"
    /\ postload = Postload(512)
    /\ bs_ret = Returned(<<"u-boot-fdt-postload.bin", "signed-postload.bin">>)
    /\ Size(bs_files["u-boot-fdt-postload.bin"].data) =
         uboot_data.len + base_fdt.size + 512

-----------------------------------------------------------------------------
(* Properties of DecodeGBBFlagsFromFdt *)

IsGbbFlagProp(name) ==
    Len(name) >= 9 /\ \A i \in 1..9 : name[i] = gbb_flag_prefix[i]
FlagSuffix(name) == [i \in 1..(Len(name) - 9) |-> name[i + 9]]
GbbFlagProps(props) ==
    { FlagSuffix(props[i]) : i \in { j \in 1..Len(props) : IsGbbFlagProp(props[j]) } }

RECURSIVE SumOf(_)
SumOf(S) == IF S = {} THEN 0
            ELSE LET v == CHOOSE w \in S : TRUE IN v + SumOf(S \ {v})

\* the table's bits are distinct powers of two: the OR of a set of them is
\* their sum
BitsNamed(names) ==
    SumOf({ p[2] : p \in { q \in gbb_flag_properties : q[1] \in names } })

\* C18: DecodeGBBFlagsFromFdt returns the OR of the table bits of the
\* properties of /chromeos-config named gbb-flag-<known flag>; names without
\* the prefix are ignored; a gbb-flag- name with an unknown suffix raises
\* and no mask is returned.
C18_FdtFlagsAreOrOfKnownProps ==
    (caller = "_CreateGoogleBinaryBlock" /\ gbb_pc # "fdt") =>
        LET named == GbbFlagProps(chromeos_config)
        IN  IF \A n \in named : HasFlag(n)
            THEN /\ gbb_pc # "fdt_raised"
                 /\ gbb_base = BitsNamed(named)
            ELSE /\ gbb_pc = "fdt_raised"
                 /\ gbb_ret = Raised("ValueError")

\* two flag properties and hwid have been decoded to 0x12
C18_Witness ==
    /\ caller = "_CreateGoogleBinaryBlock"
    /\ gbb_pc = "options"
    /\ chromeos_config = << gbb_flag_prefix \o load_option_roms,
                            <<"h", "w", "i", "d">>,
                            gbb_flag_prefix \o force_dev_boot_usb >>
    /\ gbb_base = 18

\* the 16-bit halves of the little-endian word at offset o (from 0) of data
WordLo(data, o) == data[o + 1] + 256 * data[o + 2]
WordHi(data, o) == data[o + 3] + 256 * data[o + 4]

\* C20: _UpdateBl2Parameters checks the header before it rewrites anything:
\* a version field other than 1 is fatal, a declared size that reaches past
\* the end of the blob (pos + size > len) is fatal, and values are rewritten
\* only when both checks pass.
C20_HeaderIsValidatedFirst ==
    (Bl2Finished /\ ~Bl2NotFound(bl2_pos)) =>
        LET o       == bl2_pos + 4
            whole   == o >= 0 /\ o + 8 <= Len(orig_bl2)
            version == whole /\ WordLo(orig_bl2, o) = 1 /\ WordHi(orig_bl2, o) = 0
            fits    == /\ whole
                       /\ WordHi(orig_bl2, o + 4) = 0
                       /\ bl2_pos + WordLo(orig_bl2, o + 4) <= Len(orig_bl2)
        IN  /\ (whole /\ ~version) =>
                 /\ bl2_ret = Raised("CmdError: version")
                 /\ bl2_file.data = orig_bl2
            /\ (version /\ ~fits) =>
                 /\ bl2_ret = Raised("CmdError: size")
                 /\ bl2_file.data = orig_bl2
            /\ bl2_file.data # orig_bl2 => (version /\ fits)
            /\ bl2_pc = "returned" => (version /\ fits)

\* a block found by its marker, of version 1, declares more bytes than the
\* blob has left
C20_Witness ==
    /\ bl2_pc = "raised"
    /\ bl2_pos > 0
    /\ WordLo(orig_bl2, bl2_pos + 4) = 1
    /\ bl2_pos + WordLo(orig_bl2, bl2_pos + 8) > Len(orig_bl2)
    /\ bl2_ret = Raised("CmdError: size")

(***************************************************************************)
(* Properties of Start and _CreateImage                                    *)
(***************************************************************************)
StageNames == { stages[i].stage : i \in DOMAIN stages }

StageIndex(name) == CHOOSE i \in DOMAIN stages : stages[i].stage = name

GbbDependentProps == {"gbb", "fwid", "keydir"}

\* C12: a small build never creates a GBB, never requires all the entries of
\* the flash map and leaves the properties gbb, fwid and keydir of the packer
\* unpopulated; a full build creates the GBB before the image is assembled
\* and requires every entry of the flash map to be populated before it packs.
C12_SmallBuildHasNoGbbProperties ==
    /\ small =>
         /\ "_CreateGoogleBinaryBlock" \notin StageNames
         /\ gbb = ""
         /\ ~require_all
         /\ GbbDependentProps \cap DOMAIN pack_props = {}
    /\ (~small /\ "_CreateImage" \in StageNames) =>
         /\ "_CreateGoogleBinaryBlock" \in StageNames
         /\ StageIndex("_CreateGoogleBinaryBlock") < StageIndex("_CreateImage")
         /\ gbb = "gbb.bin"
         /\ "gbb.bin" \in DOMAIN st_files
    /\ (~small /\ "PackImage" \in StageNames) =>
         /\ require_all
         /\ StageIndex("CheckProperties") < StageIndex("PackImage")
         /\ CheckProperties(flashmap, pack_props, TRUE)

\* Start is inside _BuildBlob for the blob type at the head of blob_list
InBuildBlob ==
    /\ st_pc \in {"_BuildBlob", "_CreateBootStub", "ConfigureExynosBl2"}
    /\ blob_list # <<>>

\* C14: during the assembly of the image the property map only grows: no
\* step removes a property, and a _BuildBlob called for a blob type that has
\* a property already leaves the value of that property as it was.
C14_PropertiesOnlyGrow ==
    [][ /\ DOMAIN pack_props \subseteq DOMAIN pack_props'
        /\ (InBuildBlob /\ GetProperty(pack_props, Head(blob_list)) # "") =>
              /\ Head(blob_list) \in DOMAIN pack_props'
              /\ pack_props'[Head(blob_list)] = pack_props[Head(blob_list)]
      ]_vars

\* _BuildBlob has passed 'boot' through and the property is the one
\* _CreateImage supplied
C14_Witness ==
    /\ Len(stages) > 0
    /\ stages[Len(stages)] = Stage("_BuildBlob", "boot")
    /\ st_pc = "_BuildBlob"
    /\ blob_list = <<"dtb">>
    /\ pack_props["boot"] = uboot_fname
    /\ "exynos-bl2" \in DOMAIN pack_props

\* a stage of the build has failed: a component Start called has raised, a
\* run of the signer has failed, or Start itself has raised
Failed ==
    \/ st_pc = "raised"
    \/ gbb_ret.kind = "raise"
    \/ tb_ret.kind = "raise"
    \/ bs_ret.kind = "raise"
    \/ bl2_ret.kind = "raise"
    \/ \E i \in DOMAIN cbootimage : cbootimage[i].failed

\* C15: a failure at any stage of Start aborts the build: the error goes to
\* the caller as it was raised, no later stage runs (no stage is entered, no
\* property is added, no file of the build is written), no image and no
\* property map are returned, and output_fname is not written.
C15_FailureAbortsBuild ==
    /\ [](Failed =>
            /\ st_pc # "returned"
            /\ st_ret.kind # "return"
            /\ output_fname \notin DOMAIN st_files
            /\ "image.bin" \notin DOMAIN st_files)
    /\ [](st_pc = "raised" =>
            /\ st_ret.kind = "raise"
            /\ gbb_ret.kind = "raise" => st_ret = gbb_ret
            /\ bs_ret.kind = "raise" => st_ret = bs_ret
            /\ tb_ret.kind = "raise" => st_ret = tb_ret
            /\ bl2_ret.kind = "raise" => st_ret = bl2_ret)
    /\ [][ /\ Failed =>
                /\ stages' = stages
                /\ pack_props' = pack_props
                /\ st_files' = st_files
                /\ st_pc' \in {st_pc, "raised"}
           /\ st_pc # "raised"
         ]_vars

\* the signer has failed in a build that was to write output_fname, and
\* Start has raised the signer's error
C15_Witness ==
    /\ st_pc = "raised"
    /\ st_ret = Raised("CmdError: cbootimage")
    /\ output_fname = "image-out.bin"
    /\ \E i \in DOMAIN cbootimage : cbootimage[i].failed

(***************************************************************************)
(* Properties of SafeSandboxAccess                                         *)
(***************************************************************************)
\* the directories from the root down to the file a path names
PathComponents(p) == Resolve(Split(Realpath(p), Sep), <<>>)

\* path is below static_dir in the directory tree, and is not static_dir
IsProperDescendant(static_dir, path) ==
    LET s == PathComponents(static_dir)
        p == PathComponents(path)
    IN  Len(p) > Len(s) /\ SubSeq(p, 1, Len(s)) = s

\* C17: SafeSandboxAccess(static_dir, path) returns True exactly when path
\* is a proper descendant of static_dir in the directory tree: never for
\* static_dir itself and never for a path outside it.
C17_TrueIffProperDescendant ==
    sb_pc = "returned" =>
        (sb_ret.value <=> IsProperDescendant(sb_static_dir, sb_path))

(***************************************************************************)
(* Properties of AcquireLock and ReleaseLock                               *)
(***************************************************************************)
\* AcquireLock has returned to p and p has not called ReleaseLock
Holds(p) == lk_pc[p] = "returned"

\* the call of AcquireLock by p ends in this step
AcquireEnds(p) ==
    /\ lk_pc[p] \in {"idle", "makedirs", "acquire", "except"}
    /\ lk_pc'[p] \in {"returned", "raised"}

\* C16: AcquireLock gives mutual exclusion for a tag: at most one call has
\* succeeded while the lock has not been released, every other call raises
\* CommonUtilError, and a call that fails does not remove the directory or
\* the lock file of the process that holds the lock.
C16_AcquireLockIsExclusive ==
    /\ [](\A p, q \in Procs : Holds(p) /\ Holds(q) => p = q)
    /\ [][ \A p, q \in Procs :
             (p # q /\ Holds(q) /\ AcquireEnds(p)) =>
                /\ lk_ret'[p] = Raised("CommonUtilError")
                /\ lk_dir => lk_dir'
                /\ lk_file = q => lk_file' = q
         ]_vars

(***************************************************************************)
(* Properties of the values _UpdateBl2Parameters writes                    *)
(***************************************************************************)
\* the parameter codes of the block at pos: the bytes from pos + 12 up to
\* the first NUL
CodesAt(data, pos) ==
    LET from == SliceFrom(data, pos + 12)
    IN  IF Find(from, 0) = -1 THEN <<>> ELSE Slice(from, 0, Find(from, 0))

\* where the value of the k-th code (from 0) is: the values start at the
\* 4-byte boundary after the NUL that ends the codes
SlotAt(data, pos, k) ==
    pos + 12 + 4 * ((Len(CodesAt(data, pos)) \div 4) + 1) + 4 * k

\* the 4 bytes of n in little-endian order
LittleEndian(n) ==
    << n % 256, (n \div 256) % 256, (n \div 65536) % 256, n \div 16777216 >>

\* position of a name in a tuple of names, from 0
Position(names, name) == CHOOSE i \in 0..(Len(names) - 1) : names[i + 1] = name

MemoryTypes == <<"ddr2", "ddr3", "lpddr2", "lpddr3">>
Manufacturers == <<"autodetect", "elpida", "samsung">>
BootSources == [straps |-> 32, spi |-> 20, emmc |-> 4, usb |-> 33]

GivenOr(got, default) == IF got = "not-given-invalid-value" THEN default ELSE got

\* the codes the table knows: m, M, f, v, u, b
RecognizedCodes == {109, 77, 102, 118, 117, 98}

\* the value of the table for a code, -1 where the table has none
TableValue(code) ==
    CASE code = 109 ->
           IF GivenOr(bl2_fdt.mem_type, "ddr3") \in Range(MemoryTypes)
           THEN Position(MemoryTypes, GivenOr(bl2_fdt.mem_type, "ddr3")) ELSE -1
      [] code = 77 ->
           IF GivenOr(bl2_fdt.mem_manuf, "samsung") \in Range(Manufacturers)
           THEN Position(Manufacturers, GivenOr(bl2_fdt.mem_manuf, "samsung"))
           ELSE -1
      [] code = 102 ->
           IF bl2_fdt.clock_frequency = -1 THEN 800
           ELSE bl2_fdt.clock_frequency \div 1000000
      [] code = 118 -> 31
      [] code = 117 ->
           IF spl_load_size % 4096 = 0 THEN spl_load_size
           ELSE spl_load_size - (spl_load_size % 4096) + 4096
      [] code = 98 ->
           IF spl_source \in DOMAIN BootSources THEN BootSources[spl_source]
           ELSE -1

\* the marker was found past offset 0, the block at bl2_pos passes the header
\* checks, its code list ends with a NUL and the blob holds a value slot for
\* each of its codes
WellFormedBlock ==
    /\ bl2_pos > 0
    /\ HeaderCheck(orig_bl2, bl2_pos) = "ok"
    /\ Find(SliceFrom(orig_bl2, bl2_pos + 12), 0) # -1
    /\ SlotAt(orig_bl2, bl2_pos, Len(CodesAt(orig_bl2, bl2_pos))) <= Len(orig_bl2) - 4

\* C21: for each recognized code of the parameter list, in list order,
\* _UpdateBl2Parameters writes the little-endian value of the table
\* at the code's value slot (m: index of the memory type, default ddr3;
\* M: index of the manufacturer, default samsung; f: clock frequency in MHz,
\* default 800; v: 31; u: the payload size rounded up to 4096; b: 32, 20, 4,
\* 33 for straps, spi, emmc, usb); an unmapped memory type or manufacturer
\* and an unrecognized boot source are fatal.
C21_TableValuesAreWritten ==
    (Bl2Finished /\ WellFormedBlock) =>
        LET codes == CodesAt(orig_bl2, bl2_pos)
            fatal == \E k \in 1..Len(codes) :
                        codes[k] \in RecognizedCodes /\ TableValue(codes[k]) = -1
        IN  /\ fatal <=> bl2_pc = "raised"
            /\ fatal => bl2_ret.value \in {"CmdError: memory type",
                                           "CmdError: memory manufacturer",
                                           "CmdError: boot source"}
            /\ bl2_pc = "returned" =>
                 \A k \in 1..Len(codes) :
                    codes[k] \in RecognizedCodes =>
                       Slice(bl2_file.data, SlotAt(orig_bl2, bl2_pos, k - 1),
                             SlotAt(orig_bl2, bl2_pos, k))
                         = LittleEndian(TableValue(codes[k]))

\* a payload of 5000 bytes was rounded up to 8192 and the boot source spi
\* was written as 20, in the order of the codes u, b
C21_Witness ==
    /\ bl2_pc = "returned"
    /\ bl2_pos > 0
    /\ CodesAt(orig_bl2, bl2_pos) = <<117, 98>>
    /\ spl_load_size = 5000
    /\ spl_source = "spi"
    /\ Slice(bl2_file.data, SlotAt(orig_bl2, bl2_pos, 0),
             SlotAt(orig_bl2, bl2_pos, 2)) = <<0, 32, 0, 0, 20, 0, 0, 0>>
    /\ Slice(orig_bl2, SlotAt(orig_bl2, bl2_pos, 0),
             SlotAt(orig_bl2, bl2_pos, 2)) # <<0, 32, 0, 0, 20, 0, 0, 0>>

\* the 4 bytes of the k-th value slot (from 1) of the block at pos
SlotBytes(data, pos, k) == Slice(data, SlotAt(data, pos, k - 1), SlotAt(data, pos, k))

\* a recognized code of the block has no value in the table
FatalCode ==
    \E k \in 1..Len(CodesAt(orig_bl2, bl2_pos)) :
        /\ CodesAt(orig_bl2, bl2_pos)[k] \in RecognizedCodes
        /\ TableValue(CodesAt(orig_bl2, bl2_pos)[k]) = -1

\* C22: conditions that only warn never abort the BL2 patch: the value of an
\* unrecognized code stays as read from the blob and the codes after it are
\* still processed, a memory clock outside 533, 667, 800 is still written, an
\* absent device-tree value is replaced by its default; ConfigureExynosBl2
\* completes and returns the patched blob.
C22_WarningsDoNotAbort ==
    (Bl2Finished /\ WellFormedBlock /\ ~FatalCode) =>
        LET codes == CodesAt(orig_bl2, bl2_pos)
            patched(k) == SlotBytes(bl2_file.data, bl2_pos, k)
        IN  /\ bl2_pc = "returned"
            /\ bl2_ret = Returned("updated-spl.bin")
            /\ bl2_file.written
            /\ \A k \in 1..Len(codes) :
                 /\ codes[k] \notin RecognizedCodes =>
                      /\ patched(k) = SlotBytes(orig_bl2, bl2_pos, k)
                      /\ \A j \in (k + 1)..Len(codes) :
                           codes[j] \in RecognizedCodes =>
                              patched(j) = LittleEndian(TableValue(codes[j]))
                 /\ (codes[k] = 102 /\ bl2_fdt.clock_frequency # -1) =>
                      patched(k) = LittleEndian(bl2_fdt.clock_frequency \div 1000000)
                 /\ (codes[k] = 102 /\ bl2_fdt.clock_frequency = -1) =>
                      patched(k) = LittleEndian(800)
                 /\ (codes[k] = 109 /\ bl2_fdt.mem_type = "not-given-invalid-value") =>
                      patched(k) = LittleEndian(1)
                 /\ (codes[k] = 77 /\ bl2_fdt.mem_manuf = "not-given-invalid-value") =>
                      patched(k) = LittleEndian(2)

\* the unknown code x before v: the slot of x is as read, the slot of v holds
\* 31
C22_Witness ==
    /\ bl2_pc = "returned"
    /\ WellFormedBlock
    /\ CodesAt(orig_bl2, bl2_pos) = <<120, 118>>
    /\ SlotBytes(bl2_file.data, bl2_pos, 1) = SlotBytes(orig_bl2, bl2_pos, 1)
    /\ SlotBytes(bl2_file.data, bl2_pos, 2) = <<31, 0, 0, 0>>
    /\ SlotBytes(orig_bl2, bl2_pos, 2) # <<31, 0, 0, 0>>

\* C26: ConfigureExynosBl2 reports "parameter block not found" only when the
\* marker does not occur in the blob; a blob whose last marker is at byte
\* offset 0 is accepted like a blob with the marker at any other offset.
C26_NotFoundOnlyWithoutMarker ==
    (Bl2Finished /\ bl2_ret = Raised("CmdError: parameter block not found")) =>
        ~MarkerOccurs(orig_bl2)

\* the declared size of the block at pos
DeclaredSize(data, pos) == Unpack32(Slice(data, pos + 8, pos + 12)).lo

\* byte offset i lies in a value slot of the block at pos
InValueSlot(data, pos, i) ==
    /\ i >= SlotAt(data, pos, 0)
    /\ i < SlotAt(data, pos, Len(CodesAt(data, pos)))

\* the value slots of the block at pos lie in [pos, pos + size)
SlotsInsideBlock(data, pos) ==
    Len(CodesAt(data, pos)) > 0 =>
        /\ SlotAt(data, pos, 0) >= pos
        /\ SlotAt(data, pos, Len(CodesAt(data, pos))) <= pos + DeclaredSize(data, pos)

\* the patched blob has the length of the input and differs from it only in
\* value slots and in the last 4 bytes
OnlySlotsAndChecksumDiffer ==
    /\ Len(bl2_file.data) = Len(orig_bl2)
    /\ \A i \in 0..(Len(orig_bl2) - 1) :
          bl2_file.data[i + 1] # orig_bl2[i + 1] =>
             \/ i >= Len(orig_bl2) - 4
             \/ InValueSlot(orig_bl2, bl2_pos, i)

\* C27: whenever ConfigureExynosBl2 succeeds, the patched blob has the byte
\* length of the input and differs from it only in the 4-byte value slots of
\* the parameter list, all of which lie inside the declared block
\* [pos, pos + size), and in the final 4 checksum bytes.
C27_PatchKeepsShape ==
    bl2_pc = "returned" =>
        /\ OnlySlotsAndChecksumDiffer
        /\ SlotsInsideBlock(orig_bl2, bl2_pos)

\* what a change of stage of _CreateBootStub may be: the next stage, or the
\* end of the run by an error
StageStep ==
    \/ bs_pc = "call" /\ bs_pc' \in {"Unsigned", "raised"}
    \/ bs_pc = "Unsigned" /\ bs_pc' \in {"Signed", "raised"}
    \/ bs_pc = "Signed" /\ postload.given /\ bs_pc' \in {"ReSignedWithOffset", "raised"}
    \/ bs_pc = "Signed" /\ ~postload.given /\ bs_pc' = "Final"
    \/ bs_pc = "ReSignedWithOffset" /\ bs_pc' = "Final"

\* how often cbootimage has run when _CreateBootStub is at a stage
SignerRuns ==
    CASE bs_pc \in {"call", "Unsigned"} -> {0}
      [] bs_pc = "Signed" -> {1}
      [] bs_pc = "ReSignedWithOffset" -> {2}
      [] bs_pc = "Final" -> IF postload.given THEN {2} ELSE {1}
      [] OTHER -> {0, 1, 2}

\* what is signed: the U-Boot binary as read, followed by the fdt copy with
\* the given post-load offset
SignedInput(offset) ==
    << [file |-> "u-boot", size |-> uboot_data.len, data |-> uboot_data],
       [file |-> "bootstub.dtb", size |-> base_fdt.size,
        postload_text_offset |-> offset] >>

\* C23: _CreateBootStub goes through Unsigned, Signed, ReSignedWithOffset (if
\* and only if there is a post-load binary) and Final in that order and never
\* back; cbootimage runs once without a post-load binary and twice with one,
\* both times with the load address CalcTextBase computed from the U-Boot
\* binary; the fdt copy holds the offset 0xFFFFFFFF at the first signing and
\* the byte length of the first signed image at the second.
C23_PipelineIsLinear ==
    /\ [][bs_pc' # bs_pc => StageStep]_vars
    /\ [](/\ bs_pc # "idle" => Len(cbootimage) \in SignerRuns
          /\ \A n \in 1..Len(cbootimage) :
                /\ cbootimage[n].config.text_base = tb_ret.value
                /\ tb_ret.kind = "return"
                /\ cbootimage[n].bootloader =
                     SignedInput(IF n = 1 THEN Int32(65535, 65535)
                                 ELSE IntOfLen(Size(cbootimage[1].signed))))

\* a run with a post-load binary is at Final after two signings, the second
\* with the offset 8192
C23_Witness ==
    /\ bs_pc = "Final"
    /\ postload.given
    /\ Len(cbootimage) = 2
    /\ cbootimage[2].bootloader[2].postload_text_offset = Int32(0, 8192)
    /\ cbootimage[1].bootloader[2].postload_text_offset = Int32(65535, 65535)
    /\ ~cbootimage[2].config.text_base.none

-----------------------------------------------------------------------------
(* Properties of the decoded and the returned load address *)

\* C28: every address DecodeTextBase returns is computed from the word that
\* immediately follows a marker word inside the same scan window; a marker
\* in the last word of the window at 0 never makes a word of the window at
\* 0x4000 the address.
C28_AddressFollowsItsMarker ==
    (tb_pc = "decoded" /\ IsInt(text_base)) =>
        /\ scan.i - 4 >= ScanStarts[scan.k]
        /\ ReadWord(uboot_data, scan.i - 4) = TextBaseMarker
        /\ text_base = IntSub(ReadWord(uboot_data, scan.i), ScanStarts[scan.k])

\* C29: the load address CalcTextBase returns is an unsigned 32-bit value,
\* for every U-Boot binary and every textbase of the device tree, also when
\* the marker in the window at 0x4000 is followed by a word below 0x4000.
C29_LoadAddressIsUnsigned32 ==
    tb_pc = "returned" => (tb_ret.value.hi >= 0 /\ tb_ret.value.hi < 65536)

-----------------------------------------------------------------------------
(* Properties of a lock that is taken again after its release.  A later    *)
(* call of AcquireLock is the call of another process.                     *)

\* process q is in AcquireLock, before os.makedirs or after it with the
\* directory in place; some other process has released the tag and every
\* other process has either released it or not called yet
AcquiresAfterRelease(q) ==
    /\ lk_pc[q] = "makedirs" \/ (lk_pc[q] = "acquire" /\ lk_dir)
    /\ \E p \in Procs \ {q} : lk_pc[p] = "released"
    /\ \A p \in Procs \ {q} : lk_pc[p] \in {"idle", "released"}

\* the step of q in AcquireLock goes on towards "return build_dir", or fails
\* by a fault of the lock file that is not AlreadyLocked
GoesOn(q) ==
    \/ lk_pc[q] = "makedirs" /\ lk_pc'[q] = "acquire"
    \/ lk_pc[q] = "acquire" /\ lk_pc'[q] = "returned"
    \/ lk_pc[q] = "acquire" /\ lk_pc'[q] = "except" /\ lk_fault'

\* C30: after AcquireLock and ReleaseLock with either value of destroy, a
\* later AcquireLock with the default arguments (create_once=True) succeeds
\* when no other process holds the lock.
C30_ReleasedTagCanBeLockedAgain ==
    [][\A q \in Procs :
          (AcquiresAfterRelease(q) /\ lk_args[q].create_once
             /\ lk_pc'[q] # lk_pc[q]) => GoesOn(q)]_vars

\* every process that has released the tag did so with destroy
ReleasedWithDestroy(q) ==
    \A p \in Procs \ {q} : lk_pc[p] = "released" => lk_args[p].destroy

\* every process that has released the tag did so without destroy
ReleasedWithoutDestroy(q) ==
    \A p \in Procs \ {q} : lk_pc[p] = "released" => ~lk_args[p].destroy

\* C30 as the code has it: after a release with destroy the later
\* AcquireLock succeeds with either value of create_once; after a release
\* without destroy the directory is still there, so the later AcquireLock
\* succeeds with create_once=False and raises CommonUtilError with
\* create_once=True.
C30_DestroyedTagCanBeLockedAgain ==
    [][\A q \in Procs :
          (AcquiresAfterRelease(q) /\ lk_pc'[q] # lk_pc[q]) =>
             /\ (ReleasedWithDestroy(q) \/ ~lk_args[q].create_once
                   \/ lk_pc[q] = "acquire") => GoesOn(q)
             /\ (ReleasedWithoutDestroy(q) /\ lk_args[q].create_once
                   /\ lk_pc[q] = "makedirs") =>
                   /\ lk_pc'[q] = "raised"
                   /\ lk_ret'[q] = Raised("CommonUtilError")
                   /\ lk_file' = 0]_vars

\* a process holds the lock it took with create_once after another process
\* released the tag with destroy
C30_Witness ==
    \E p, q \in Procs :
        /\ p # q
        /\ lk_pc[p] = "released" /\ lk_args[p].destroy
        /\ lk_pc[q] = "returned" /\ lk_args[q].create_once /\ is_created[q]
        /\ lk_file = q
        /\ \A r \in Procs \ {p, q} : lk_pc[r] = "idle"

-----------------------------------------------------------------------------
(* Properties of the mangled EC image *)

\* the positions (from 1) at which pattern occurs in string
Occurrences(pattern, string) ==
    { i \in 1..(Len(string) - Len(pattern) + 1) :
        SubSeq(string, i, i + Len(pattern) - 1) = pattern }

\* C24: for every content of the read-only EC image, the payload written
\* for the blob type ecro has the length of the input, holds no occurrence
\* of '__FMAP__' (also when occurrences overlap in the input) and equals the
\* input everywhere except inside replaced literals.
C24_NoFmapNameIsLeft ==
    ec_pc = "returned" =>
        /\ updated_ecro.written
        /\ Len(updated_ecro.data) = Len(ecro_data)
        /\ Occurrences(<<"_", "_", "F", "M", "A", "P", "_", "_">>,
                       updated_ecro.data) = {}
        /\ \A i \in 1..Len(ecro_data) :
              updated_ecro.data[i] # ecro_data[i] =>
                 \E j \in Occurrences(<<"_", "_", "F", "M", "A", "P", "_", "_">>,
                                      ecro_data) : j <= i /\ i <= j + 7

-----------------------------------------------------------------------------
(* Properties of SetNodeEnabled *)

\* node_name is a full path
IsFullPath == node_name # <<>> /\ node_name[1] = "/"

\* /aliases has a value for node_name
AliasFound ==
    /\ <<Aliases, node_name>> \in DOMAIN ne_fdt
    /\ ne_fdt[<<Aliases, node_name>>] # <<>>

\* the node meant: the path given or the path the alias stands for
TargetNode == IF IsFullPath THEN node_name ELSE ne_fdt[<<Aliases, node_name>>]

====
